---------------------------- MODULE Spec2Model ----------------------------
(***************************************************************************)
(* CSX encoder pipeline of sparsex: the delta run-length encoder of        *)
(* src/patterns/drle.cc (statistics, planner, per-type encoder) and the    *)
(* CSX assembler of src/include/sparsex/internals/CsxManager.hpp           *)
(* (MakeCsx, DoRow, AddCols, AddPattern, GetFlag, UpdateRowSpan), with the *)
(* ctl stream kept as a sequence of bytes.                                 *)
(***************************************************************************)
EXTENDS Integers, Sequences, FiniteSets, TLC

VARIABLES
    input,  \* the coordinate input and the configuration of the run
    spm,    \* the sparse partition: iteration order and elements
    drle,   \* DRLE_Manager: stats, DeltasToEncode, xforms_ignore, history
    mgr,    \* CsxManager: its fields, the ctl builder and the csx result
    pc,     \* position of the driver
    run1    \* the csx result of an earlier run on the same input

vars == <<input, spm, drle, mgr, pc, run1>>

(***************************************************************************)
(* Bounds of the model.                                                    *)
(***************************************************************************)
NRows == 3
NCols == 3
MaxAlign == 2
MaxNnz == 4

(***************************************************************************)
(* Small helpers.                                                          *)
(***************************************************************************)
Min2(a, b) == IF a < b THEN a ELSE b
Max2(a, b) == IF a > b THEN a ELSE b

\* The sum of s[lo..hi], by halves so that long sequences stay shallow.
RECURSIVE SumRange(_, _, _)
SumRange(s, lo, hi) ==
    IF lo > hi THEN 0
    ELSE IF lo = hi THEN s[lo]
    ELSE LET mid == (lo + hi) \div 2
         IN SumRange(s, lo, mid) + SumRange(s, mid + 1, hi)

SumSeq(s) == SumRange(s, 1, Len(s))

\* The greatest element of a sequence of naturals, 0 for the empty one.
MaxSeq(s) ==
    LET S == {s[i] : i \in 1..Len(s)} \cup {0}
    IN CHOOSE x \in S : \A y \in S : y <= x

RECURSIVE FlattenSeq(_)
FlattenSeq(ss) == IF ss = <<>> THEN <<>> ELSE Head(ss) \o FlattenSeq(Tail(ss))

Pow2(n) == 2 ^ n

SetMinOf(S) == CHOOSE x \in S : \A y \in S : x <= y

SetMaxOf(S) == CHOOSE x \in S : \A y \in S : y <= x

(***************************************************************************)
(* Iteration orders (SpmIterOrder).  The numbering follows the order in    *)
(* which removeIgnore names them.                                          *)
(***************************************************************************)
NONE == 0
HORIZONTAL == 1
VERTICAL == 2
DIAGONAL == 3
REV_DIAGONAL == 4
BLOCK_TYPE_START == 5
BLOCK_COL_START == 14
BLOCK_TYPE_END == 23
XFORM_MAX == 24

BLOCK_ROW_TYPE_NAME(k) == BLOCK_TYPE_START + k
BLOCK_COL_TYPE_NAME(k) == BLOCK_COL_START + k

AllTypes == NONE .. (XFORM_MAX - 1)

\* isBlockType: the alignment of a block type, 0 for every other type.
isBlockType(t) ==
    IF t > BLOCK_TYPE_START /\ t < BLOCK_COL_START THEN t - BLOCK_TYPE_START
    ELSE IF t > BLOCK_COL_START /\ t < BLOCK_TYPE_END THEN t - BLOCK_COL_START
    ELSE 0

IsBlockRowType(t) == t > BLOCK_TYPE_START /\ t < BLOCK_COL_START
IsBlockColType(t) == t > BLOCK_COL_START /\ t < BLOCK_TYPE_END

(***************************************************************************)
(* Elements.  A plain element has pattern NONE, and one value; a pattern   *)
(* element has the pattern's type, delta and size and size values.  y and  *)
(* x are the coordinates in the partition's current iteration order.       *)
(***************************************************************************)
PlainElem(y, x, v) ==
    [y |-> y, x |-> x, pattern |-> NONE, delta |-> 0, size |-> 1, vals |-> <<v>>]

PatElem(y, x, t, d, n, vs) ==
    [y |-> y, x |-> x, pattern |-> t, delta |-> d, size |-> n, vals |-> vs]

IsPattern(e) == e.pattern # NONE

\* The value of the input nonzero at (r, c): distinct per coordinate.
ValueAt(r, c) == 1000 * r + c

(***************************************************************************)
(* Coordinate maps of SparsePartition::Transform: from (row, col) to the   *)
(* coordinates of an iteration order and back.                             *)
(***************************************************************************)
MapTo(t, r, c, ncols) ==
    IF t = VERTICAL THEN <<c, r>>
    ELSE IF t = DIAGONAL THEN <<ncols + r - c, r>>
    ELSE IF t = REV_DIAGONAL THEN <<r + c - 1, r>>
    ELSE IF IsBlockRowType(t)
         THEN LET k == isBlockType(t)
              IN <<((r - 1) \div k) + 1, k * (c - 1) + ((r - 1) % k) + 1>>
    ELSE IF IsBlockColType(t)
         THEN LET k == isBlockType(t)
              IN <<((c - 1) \div k) + 1, k * (r - 1) + ((c - 1) % k) + 1>>
    ELSE <<r, c>>

MapFrom(t, y, x, ncols) ==
    IF t = VERTICAL THEN <<x, y>>
    ELSE IF t = DIAGONAL THEN <<x, x + ncols - y>>
    ELSE IF t = REV_DIAGONAL THEN <<x, y + 1 - x>>
    ELSE IF IsBlockRowType(t)
         THEN LET k == isBlockType(t)
              IN <<(y - 1) * k + ((x - 1) % k) + 1, ((x - 1) \div k) + 1>>
    ELSE IF IsBlockColType(t)
         THEN LET k == isBlockType(t)
              IN <<((x - 1) \div k) + 1, (y - 1) * k + ((x - 1) % k) + 1>>
    ELSE <<y, x>>

ElemLess(a, b) == a.y < b.y \/ (a.y = b.y /\ a.x < b.x)

RECURSIVE InsertElem(_, _)
InsertElem(e, s) ==
    IF s = <<>> THEN <<e>>
    ELSE IF ElemLess(e, Head(s)) THEN <<e>> \o s
    ELSE <<Head(s)>> \o InsertElem(e, Tail(s))

RECURSIVE SortElems(_)
SortElems(s) ==
    IF s = <<>> THEN <<>> ELSE InsertElem(Head(s), SortElems(Tail(s)))

MoveElem(e, from, to, ncols) ==
    LET rc == MapFrom(from, e.y, e.x, ncols)
        yx == MapTo(to, rc[1], rc[2], ncols)
    IN [e EXCEPT !.y = yx[1], !.x = yx[2]]

\* SparsePartition::Transform
Transform(p, t) ==
    IF p.type = t THEN p
    ELSE [p EXCEPT !.type = t,
                   !.elems = SortElems([i \in 1..Len(p.elems) |->
                                           MoveElem(p.elems[i], p.type, t,
                                                    p.nr_cols)])]

\* The elements of row y of a partition, in order.
RowOf(p, y) == SelectSeq(p.elems, LAMBDA e : e.y = y)

\* The rows of a partition that hold elements, ascending.
RECURSIVE RowIds(_)
RowIds(s) ==
    IF s = <<>> THEN <<>>
    ELSE LET r == RowIds(Tail(s))
         IN IF r # <<>> /\ Head(r) = Head(s).y THEN r ELSE <<Head(s).y>> \o r

(***************************************************************************)
(* Delta and run-length encoding (drle.cc).                                *)
(***************************************************************************)
\* DeltaEncode: the first element is kept, every other becomes the
\* difference to its predecessor.
DeltaEncodeSeq(in) ==
    [i \in 1..Len(in) |-> IF i = 1 THEN in[1] ELSE in[i] - in[i - 1]]

\* RLEncode of a non-empty sequence: runs [val, freq].
RECURSIVE RLEncodeFrom(_, _, _)
RLEncodeFrom(in, i, rle) ==
    IF i > Len(in) THEN <<rle>>
    ELSE IF rle.val # in[i]
         THEN <<rle>> \o RLEncodeFrom(in, i + 1, [val |-> in[i], freq |-> 1])
         ELSE RLEncodeFrom(in, i + 1, [rle EXCEPT !.freq = @ + 1])

RLEncode(in) == RLEncodeFrom(in, 2, [val |-> in[1], freq |-> 1])

(***************************************************************************)
(* Statistics (drle.cc).  A Stats table maps a delta value (or, for block  *)
(* types, the block's other dimension) to [nnz, npatterns].                *)
(***************************************************************************)
AddStat(stats, key, n) ==
    IF key \in DOMAIN stats
    THEN [stats EXCEPT ![key] = [nnz |-> @.nnz + n, npatterns |-> @.npatterns + 1]]
    ELSE [k \in DOMAIN stats \cup {key} |->
             IF k = key THEN [nnz |-> n, npatterns |-> 1] ELSE stats[k]]

RECURSIVE UpdateStatsRles(_, _, _, _)
UpdateStatsRles(rles, j, stats, min_limit) ==
    IF j > Len(rles) THEN stats
    ELSE UpdateStatsRles(rles, j + 1,
             IF rles[j].freq >= min_limit
             THEN AddStat(stats, rles[j].val, rles[j].freq)
             ELSE stats,
             min_limit)

RECURSIVE UpdateStatsBlockRles(_, _, _, _, _)
UpdateStatsBlockRles(rles, j, unit_start0, stats, block_align) ==
    IF j > Len(rles) THEN stats
    ELSE LET rle == rles[j]
             unit_start == unit_start0 + rle.val
             skip_front == IF unit_start = 1 THEN 0
                           ELSE (unit_start - 2) % block_align
             nr_elem == IF rle.freq + 1 > skip_front
                        THEN rle.freq + 1 - skip_front ELSE 0
             other_dim == nr_elem \div block_align
             stats1 == IF rle.val = 1 /\ other_dim >= 2
                       THEN AddStat(stats, other_dim, other_dim * block_align)
                       ELSE stats
         IN UpdateStatsBlockRles(rles, j + 1,
                unit_start + rle.val * (rle.freq - 1), stats1, block_align)

\* DRLE_Manager::updateStatsBlock
updateStatsBlock(xs, stats, block_align) ==
    IF xs = <<>> THEN stats
    ELSE UpdateStatsBlockRles(RLEncode(DeltaEncodeSeq(xs)), 1, 0, stats,
                              block_align)

\* updateStats that counts the runs one short of min_limit as well.
updateStatsShort(xs, stats, type, min_limit) ==
    IF isBlockType(type) # 0 THEN updateStatsBlock(xs, stats, isBlockType(type))
    ELSE IF xs = <<>> THEN stats
    ELSE UpdateStatsRles(RLEncode(DeltaEncodeSeq(xs)), 1, stats, min_limit - 1)

\* DRLE_Manager::updateStats
updateStats(xs, stats, type, min_limit) ==
    IF isBlockType(type) # 0 THEN updateStatsBlock(xs, stats, isBlockType(type))
    ELSE IF xs = <<>> THEN stats
    ELSE UpdateStatsRles(RLEncode(DeltaEncodeSeq(xs)), 1, stats, min_limit)

\* DRLE_Manager::generateStats: the plain elements of a row are gathered
\* until a pattern element or the end of the row.
RECURSIVE GenerateStatsFrom(_, _, _, _, _, _)
GenerateStatsFrom(elems, i, xs, stats, type, min_limit) ==
    IF i > Len(elems) THEN updateStats(xs, stats, type, min_limit)
    ELSE LET e == elems[i]
             newrow == i > 1 /\ elems[i - 1].y # e.y
             stats1 == IF newrow THEN updateStats(xs, stats, type, min_limit)
                       ELSE stats
             xs1 == IF newrow THEN <<>> ELSE xs
         IN IF IsPattern(e)
            THEN GenerateStatsFrom(elems, i + 1, <<>>,
                     updateStats(xs1, stats1, type, min_limit), type, min_limit)
            ELSE GenerateStatsFrom(elems, i + 1, Append(xs1, e.x), stats1,
                                   type, min_limit)

EmptyStats == [k \in {} |-> [nnz |-> 0, npatterns |-> 0]]

generateStats(p, min_limit) ==
    GenerateStatsFrom(p.elems, 1, <<>>, EmptyStats, p.type, min_limit)

(***************************************************************************)
(* The encoder (drle.cc).  The state of doEncode's loop is                 *)
(* [col, vi, newrow]: the current column, the index of the next value in   *)
(* vs, and the row built so far.                                           *)
(***************************************************************************)
\* The inner while loop without its lower limit: whatever is left of a run
\* becomes a pattern.
RECURSIVE DoEncodeChunksAny(_, _, _, _, _, _, _)
DoEncodeChunksAny(st, val, freq0, vs, y, type, cfg) ==
    IF freq0 >= 1
    THEN LET freq == Min2(cfg.max_limit, freq0)
             col == st.col + val
             elem == PatElem(y, col, type, val, freq,
                             SubSeq(vs, st.vi, st.vi + freq - 1))
         IN DoEncodeChunksAny([col |-> col + val * (freq - 1),
                               vi |-> st.vi + freq,
                               newrow |-> Append(st.newrow, elem),
                               left |-> freq0 - freq],
                              val, freq0 - freq, vs, y, type, cfg)
    ELSE [st EXCEPT !.left = freq0]

\* The inner while loop of doEncode: patterns of at most max_limit elements
\* as long as min_limit elements of the run are left.
RECURSIVE DoEncodeChunks(_, _, _, _, _, _, _)
DoEncodeChunks(st, val, freq0, vs, y, type, cfg) ==
    IF freq0 >= cfg.min_limit
    THEN LET freq == Min2(cfg.max_limit, freq0)
             col == st.col + val
             elem == PatElem(y, col, type, val, freq,
                             SubSeq(vs, st.vi, st.vi + freq - 1))
         IN DoEncodeChunks([col |-> col + val * (freq - 1),
                            vi |-> st.vi + freq,
                            newrow |-> Append(st.newrow, elem),
                            left |-> freq0 - freq],
                           val, freq0 - freq, vs, y, type, cfg)
    ELSE [st EXCEPT !.left = freq0]

\* "add individual elements" with the first value of vs for every element.
RECURSIVE DoEncodePlainFirst(_, _, _, _, _)
DoEncodePlainFirst(st, val, n, vs, y) ==
    IF n = 0 THEN st
    ELSE DoEncodePlainFirst([st EXCEPT !.col = @ + val,
                                       !.vi = @ + 1,
                                       !.newrow = Append(@, PlainElem(y, st.col + val,
                                                                      vs[1]))],
                            val, n - 1, vs, y)

\* "add individual elements"
RECURSIVE DoEncodePlain(_, _, _, _, _)
DoEncodePlain(st, val, n, vs, y) ==
    IF n = 0 THEN st
    ELSE DoEncodePlain([st EXCEPT !.col = @ + val,
                                  !.vi = @ + 1,
                                  !.newrow = Append(@, PlainElem(y, st.col + val,
                                                                 vs[st.vi]))],
                       val, n - 1, vs, y)

RECURSIVE DoEncodeRles(_, _, _, _, _, _, _, _)
DoEncodeRles(rles, j, st, vs, y, type, deltas_set, cfg) ==
    IF j > Len(rles) THEN st
    ELSE LET rle == rles[j]
             st1 == IF rle.val \in deltas_set
                    THEN DoEncodeChunks(st, rle.val, rle.freq, vs, y, type, cfg)
                    ELSE [st EXCEPT !.left = rle.freq]
         IN DoEncodeRles(rles, j + 1,
                         DoEncodePlain(st1, rle.val, st1.left, vs, y),
                         vs, y, type, deltas_set, cfg)

\* "Add elements skipped from start", "Add the remaining elements": n plain
\* elements at consecutive columns from x0.
RECURSIVE BlockPlain(_, _, _, _, _)
BlockPlain(st, x0, n, vs, y) ==
    IF n = 0 THEN st
    ELSE BlockPlain([st EXCEPT !.vi = @ + 1,
                               !.newrow = Append(@, PlainElem(y, x0, vs[st.vi]))],
                    x0 + 1, n - 1, vs, y)

\* "Add the blocks"
RECURSIVE BlockBlocks(_, _, _, _, _, _, _, _)
BlockBlocks(st, x0, i, nr_blocks, nr_elem_block, vs, y, type) ==
    IF i = nr_blocks THEN st
    ELSE BlockBlocks(
             [st EXCEPT !.vi = @ + nr_elem_block,
                        !.newrow = Append(@,
                            PatElem(y, x0 + i * nr_elem_block, type,
                                    nr_elem_block \div isBlockType(type),
                                    nr_elem_block,
                                    SubSeq(vs, st.vi, st.vi + nr_elem_block - 1)))],
             x0, i + 1, nr_blocks, nr_elem_block, vs, y, type)

\* "add individual elements" of doEncodeBlock
RECURSIVE BlockIndividual(_, _, _, _, _, _, _)
BlockIndividual(st, col, val, i, n, vs, y) ==
    IF i = n THEN st
    ELSE BlockIndividual(
             [st EXCEPT !.vi = @ + 1,
                        !.newrow = Append(@, PlainElem(y, col + i * val,
                                                       vs[st.vi]))],
             col, val, i + 1, n, vs, y)

\* The iteration with the front trimmed as updateStatsBlock trims it, by
\* (col - 2) mod block_align.
DoEncodeBlockRleFront(st, rle, vs, y, type, deltas_set, cfg) ==
    LET block_align == isBlockType(type)
        col == st.col + rle.val
        skip_front0 == IF col = 1 THEN 0 ELSE (col - 2) % block_align
        skip_front == skip_front0
        nr_elem0 == IF col = 1 THEN rle.freq ELSE rle.freq + 1
        nr_elem1 == IF nr_elem0 > skip_front THEN nr_elem0 - skip_front ELSE 0
        skip_back == nr_elem1 % block_align
        nr_elem == IF nr_elem1 > skip_back THEN nr_elem1 - skip_back ELSE 0
    IN IF rle.val = 1 /\ (nr_elem \div block_align) \in deltas_set
          /\ nr_elem >= 2 * block_align
       THEN LET rle_start == IF col # 1 THEN col - 1 ELSE col
                \* "we need to annex the previous element"
                st1 == IF col # 1
                       THEN [st EXCEPT !.vi = @ - 1,
                                       !.newrow = SubSeq(@, 1, Len(@) - 1)]
                       ELSE st
                st2 == BlockPlain(st1, rle_start, skip_front, vs, y)
                max_limit == (cfg.max_limit \div (2 * block_align))
                                 * (2 * block_align)
                nr_blocks0 == nr_elem \div max_limit
                nr_elem_block == Min2(max_limit, nr_elem)
                nr_blocks == IF nr_blocks0 = 0 THEN 1 ELSE nr_blocks0
                skip_back1 == IF nr_blocks0 = 0 THEN skip_back
                              ELSE skip_back + nr_elem - nr_elem_block * nr_blocks
                st3 == BlockBlocks(st2, rle_start + skip_front, 0, nr_blocks,
                                   nr_elem_block, vs, y, type)
                st4 == BlockPlain(st3,
                           rle_start + skip_front + nr_elem_block * nr_blocks,
                           skip_back1, vs, y)
            IN [st4 EXCEPT !.col = col + rle.val * (rle.freq - 1)]
       ELSE [BlockIndividual(st, col, rle.val, 0, rle.freq, vs, y)
                EXCEPT !.col = col + rle.val * (rle.freq - 1)]

\* One iteration of the loop of doEncodeBlock over the runs.
DoEncodeBlockRle(st, rle, vs, y, type, deltas_set, cfg) ==
    LET block_align == isBlockType(type)
        col == st.col + rle.val
        skip_front0 == IF col = 1 THEN 0 ELSE (col - 2) % block_align
        skip_front == IF col # 1 /\ skip_front0 # 0
                      THEN block_align - skip_front0 ELSE skip_front0
        nr_elem0 == IF col = 1 THEN rle.freq ELSE rle.freq + 1
        nr_elem1 == IF nr_elem0 > skip_front THEN nr_elem0 - skip_front ELSE 0
        skip_back == nr_elem1 % block_align
        nr_elem == IF nr_elem1 > skip_back THEN nr_elem1 - skip_back ELSE 0
    IN IF rle.val = 1 /\ (nr_elem \div block_align) \in deltas_set
          /\ nr_elem >= 2 * block_align
       THEN LET rle_start == IF col # 1 THEN col - 1 ELSE col
                \* "we need to annex the previous element"
                st1 == IF col # 1
                       THEN [st EXCEPT !.vi = @ - 1,
                                       !.newrow = SubSeq(@, 1, Len(@) - 1)]
                       ELSE st
                st2 == BlockPlain(st1, rle_start, skip_front, vs, y)
                max_limit == (cfg.max_limit \div (2 * block_align))
                                 * (2 * block_align)
                nr_blocks0 == nr_elem \div max_limit
                nr_elem_block == Min2(max_limit, nr_elem)
                nr_blocks == IF nr_blocks0 = 0 THEN 1 ELSE nr_blocks0
                skip_back1 == IF nr_blocks0 = 0 THEN skip_back
                              ELSE skip_back + nr_elem - nr_elem_block * nr_blocks
                st3 == BlockBlocks(st2, rle_start + skip_front, 0, nr_blocks,
                                   nr_elem_block, vs, y, type)
                st4 == BlockPlain(st3,
                           rle_start + skip_front + nr_elem_block * nr_blocks,
                           skip_back1, vs, y)
            IN [st4 EXCEPT !.col = col + rle.val * (rle.freq - 1)]
       ELSE [BlockIndividual(st, col, rle.val, 0, rle.freq, vs, y)
                EXCEPT !.col = col + rle.val * (rle.freq - 1)]

RECURSIVE DoEncodeBlockRles(_, _, _, _, _, _, _, _)
DoEncodeBlockRles(rles, j, st, vs, y, type, deltas_set, cfg) ==
    IF j > Len(rles) THEN st
    ELSE DoEncodeBlockRles(rles, j + 1,
             DoEncodeBlockRle(st, rles[j], vs, y, type, deltas_set, cfg),
             vs, y, type, deltas_set, cfg)

\* DRLE_Manager::doEncodeBlock: the row with xs/vs encoded appended.
doEncodeBlock(xs, vs, newrow, y, type, deltas_set, cfg) ==
    DoEncodeBlockRles(RLEncode(DeltaEncodeSeq(xs)), 1,
                      [col |-> 0, vi |-> 1, newrow |-> newrow, left |-> 0],
                      vs, y, type, deltas_set, cfg).newrow

\* doEncode that takes every delta of the row as one to encode.
doEncodeAllDeltas(xs, vs, newrow, y, type, deltas_set, cfg) ==
    IF isBlockType(type) # 0
    THEN doEncodeBlock(xs, vs, newrow, y, type, deltas_set, cfg)
    ELSE DoEncodeRles(RLEncode(DeltaEncodeSeq(xs)), 1,
                      [col |-> 0, vi |-> 1, newrow |-> newrow, left |-> 0],
                      vs, y, type, {xs[i] : i \in 1..Len(xs)}
                                      \cup {xs[i] - xs[i - 1] : i \in 2..Len(xs)},
                      cfg).newrow

\* DRLE_Manager::doEncode
doEncode(xs, vs, newrow, y, type, deltas_set, cfg) ==
    IF isBlockType(type) # 0
    THEN doEncodeBlock(xs, vs, newrow, y, type, deltas_set, cfg)
    ELSE DoEncodeRles(RLEncode(DeltaEncodeSeq(xs)), 1,
                      [col |-> 0, vi |-> 1, newrow |-> newrow, left |-> 0],
                      vs, y, type, deltas_set, cfg).newrow

\* DRLE_Manager::EncodeRow over the elements row[i..]
RECURSIVE EncodeRowFrom(_, _, _, _, _, _, _, _)
EncodeRowFrom(row, i, xs, vs, newrow, type, deltas_set, cfg) ==
    IF i > Len(row)
    THEN IF xs # <<>>
         THEN doEncode(xs, vs, newrow, row[1].y, type, deltas_set, cfg)
         ELSE newrow
    ELSE LET e == row[i]
         IN IF ~IsPattern(e)
            THEN EncodeRowFrom(row, i + 1, Append(xs, e.x),
                               Append(vs, e.vals[1]), newrow, type,
                               deltas_set, cfg)
            ELSE EncodeRowFrom(row, i + 1, <<>>, <<>>,
                     Append(IF xs # <<>>
                            THEN doEncode(xs, vs, newrow, e.y, type,
                                          deltas_set, cfg)
                            ELSE newrow, e),
                     type, deltas_set, cfg)

EncodeRow(row, type, deltas_set, cfg) ==
    EncodeRowFrom(row, 1, <<>>, <<>>, <<>>, type, deltas_set, cfg)

RECURSIVE EncodeRows(_, _, _, _, _)
EncodeRows(p, ys, type, deltas_set, cfg) ==
    IF ys = <<>> THEN <<>>
    ELSE EncodeRow(RowOf(p, Head(ys)), type, deltas_set, cfg)
             \o EncodeRows(p, Tail(ys), type, deltas_set, cfg)

\* The partition part of DRLE_Manager::Encode(type): transform, encode every
\* row, rebuild the partition, transform back.
EncodePartition(p, type, deltas_set, cfg) ==
    LET oldtype == p.type
        q == Transform(p, type)
        built == [q EXCEPT !.elems = EncodeRows(q, RowIds(q.elems), type,
                                                deltas_set, cfg)]
    IN Transform(built, oldtype)

\* Pattern::getNextX: the column after x in a pattern, in the iteration
\* order of the pattern's type: delta further on, or the next position of
\* a block.
getNextX(elem, x) ==
    IF isBlockType(elem.pattern) # 0 THEN x + 1 ELSE x + elem.delta

\* DRLE_Manager::doDecode: the plain elements a pattern element stands
\* for.  getNextX adds the same step each time, so the i-th column is
\* i - 1 steps after the anchor.
doDecode(elem) ==
    [i \in 1..elem.size |->
        PlainElem(elem.y,
                  elem.x + (i - 1) * (getNextX(elem, elem.x) - elem.x),
                  elem.vals[i])]

\* DRLE_Manager::DecodeRow: the patterns of the partition's type are
\* expanded, every other element is copied.
DecodeRow(row, type) ==
    FlattenSeq([i \in 1..Len(row) |->
                   IF IsPattern(row[i]) /\ row[i].pattern = type
                   THEN doDecode(row[i])
                   ELSE <<row[i]>>])

\* The partition part of DRLE_Manager::Decode(type): transform, decode
\* every row, rebuild the partition, transform back.
DecodePartition(p, type) ==
    IF type = NONE THEN p
    ELSE LET oldtype == p.type
             q == Transform(p, type)
             ys == RowIds(q.elems)
             built == [q EXCEPT !.elems =
                          FlattenSeq([j \in 1..Len(ys) |->
                                         DecodeRow(RowOf(q, ys[j]), type)])]
         IN Transform(built, oldtype)

(***************************************************************************)
(* The planner (drle.cc): genAllStats, getTypeScore, chooseType and the    *)
(* loop of EncodeAll.                                                      *)
(***************************************************************************)
\* The filter of genAllStats: an entry whose share of the nonzeros is below
\* min_perc is erased, every other key is inserted into DeltasToEncode.
Survives(entry, nnz, cfg) == entry.nnz * cfg.min_perc_den >= cfg.min_perc_num * nnz

FilterStats(sp, nnz, cfg) ==
    [k \in {d \in DOMAIN sp : Survives(sp[d], nnz, cfg)} |-> sp[k]]

\* The loop of genAllStats over the types from t on; st is
\* [spm, stats, DeltasToEncode].  The test st1 = st1 is always true: it
\* has the pass over one type completed before the next type is taken up,
\* as in the loop of the code.
RECURSIVE GenAllStatsFrom(_, _, _, _)
GenAllStatsFrom(t, st, ignore, cfg) ==
    IF t = XFORM_MAX THEN st
    ELSE IF t \in ignore THEN GenAllStatsFrom(t + 1, st, ignore, cfg)
    ELSE LET q == Transform(st.spm, t)
             sp == FilterStats(generateStats(q, cfg.min_limit), q.nnz, cfg)
             st1 == [spm |-> Transform(q, HORIZONTAL),
                     stats |-> [u \in DOMAIN st.stats \cup {t} |->
                                   IF u = t THEN sp ELSE st.stats[u]],
                     DeltasToEncode |-> [st.DeltasToEncode EXCEPT
                                            ![t] = @ \cup DOMAIN sp]]
         IN IF st1 = st1 THEN GenAllStatsFrom(t + 1, st1, ignore, cfg)
            ELSE st

EmptyStatsMap == [t \in {} |-> EmptyStats]

\* DRLE_Manager::genAllStats: the statistics are cleared and gathered again.
genAllStats(p, d, cfg) ==
    GenAllStatsFrom(HORIZONTAL,
                    [spm |-> p, stats |-> EmptyStatsMap,
                     DeltasToEncode |-> d.DeltasToEncode],
                    d.xforms_ignore, cfg)

RECURSIVE SumNnz(_, _)
SumNnz(sp, keys) ==
    IF keys = {} THEN 0
    ELSE LET k == CHOOSE k \in keys : TRUE
         IN sp[k].nnz + SumNnz(sp, keys \ {k})

RECURSIVE SumPatterns(_, _)
SumPatterns(sp, keys) ==
    IF keys = {} THEN 0
    ELSE LET k == CHOOSE k \in keys : TRUE
         IN sp[k].npatterns + SumPatterns(sp, keys \ {k})

\* DRLE_Manager::getTypeScore
getTypeScore(stats, type) ==
    IF type \notin DOMAIN stats THEN 0
    ELSE SumNnz(stats[type], DOMAIN stats[type])
             - SumPatterns(stats[type], DOMAIN stats[type])

\* chooseType that settles for the first type of a positive score.
chooseTypeFirst(stats) ==
    IF \E t \in DOMAIN stats : getTypeScore(stats, t) > 0
    THEN CHOOSE t \in DOMAIN stats :
            /\ getTypeScore(stats, t) > 0
            /\ \A u \in DOMAIN stats : getTypeScore(stats, u) > 0 => t <= u
    ELSE NONE

\* DRLE_Manager::chooseType: the types are visited in ascending order and
\* a later type replaces the choice only with a strictly greater score.
RECURSIVE ChooseTypeFrom(_, _, _, _)
ChooseTypeFrom(stats, t, ret, max_out) ==
    IF t = XFORM_MAX THEN ret
    ELSE IF t \in DOMAIN stats /\ getTypeScore(stats, t) > max_out
         THEN ChooseTypeFrom(stats, t + 1, t, getTypeScore(stats, t))
         ELSE ChooseTypeFrom(stats, t + 1, ret, max_out)

chooseType(stats) == ChooseTypeFrom(stats, NONE, NONE, 0)

\* addIgnore that leaves the ignore set as it is.
addIgnoreNothing(ignore, type) == ignore

\* DRLE_Manager::addIgnore
addIgnore(ignore, type) == ignore \cup {type}

\* DRLE_Manager::ignoreAll: every bit of the set is set.
ignoreAll(ignore) == AllTypes

\* DRLE_Manager::removeIgnore: the types that are always ignored are left
\* in the set.
removeIgnore(ignore, type) ==
    IF \/ type <= NONE
       \/ type = BLOCK_TYPE_START
       \/ type = BLOCK_ROW_TYPE_NAME(1)
       \/ type = BLOCK_COL_START
       \/ type = BLOCK_COL_TYPE_NAME(1)
       \/ type = BLOCK_TYPE_END
       \/ type >= XFORM_MAX
    THEN ignore
    ELSE ignore \ {type}

\* DRLE_Manager::removeAll: the bit of every type from NONE on is reset.
removeAll(ignore) == ignore \ (NONE..(XFORM_MAX - 1))

\* Encode that leaves the ignore set as it was.
EncodeForget(p, d, type0, cfg) ==
    LET type == IF type0 = NONE THEN chooseType(d.stats) ELSE type0
    IN IF type = NONE THEN [spm |-> p, drle |-> d]
       ELSE [spm |-> EncodePartition(p, type, d.DeltasToEncode[type], cfg),
             drle |-> d]

\* DRLE_Manager::Encode(type), type NONE being the default argument: the
\* type is chosen if none is given, the call returns if there is none to
\* choose; the partition is encoded in the order of the type and brought
\* back to the order it had, and the type joins the ignore set.  chosen
\* keeps the type, its score and the scores of all the types.
Encode(p, d, type0, cfg) ==
    LET type == IF type0 = NONE THEN chooseType(d.stats) ELSE type0
    IN IF type = NONE THEN [spm |-> p, drle |-> d]
       ELSE [spm |-> EncodePartition(p, type, d.DeltasToEncode[type], cfg),
             drle |-> [d EXCEPT
                         !.xforms_ignore = addIgnore(@, type),
                         !.chosen = Append(@,
                             [type |-> type,
                              score |-> getTypeScore(d.stats, type),
                              scores |-> [t \in DOMAIN d.stats |->
                                             getTypeScore(d.stats, t)]])]]

(***************************************************************************)
(* The ctl builder.  ctl is a sequence of bytes; offsets are counted from  *)
(* 0, so the next byte is written at offset Len(ctl).                      *)
(***************************************************************************)
CTL_NR_BIT == 6
CTL_RJMP_BIT == 7
CTL_SIZE_MAX == 255
CTL_PATTERNS_MAX == 63
LONGUC_SHIFT == 7

\* da_put_ul (csx.cc): base-128, low group first, the high bit set on every
\* byte but the last.
RECURSIVE da_put_ul(_, _)
da_put_ul(da, val) ==
    LET uc == val % Pow2(LONGUC_SHIFT)
    IN IF val < Pow2(LONGUC_SHIFT) THEN Append(da, uc)
       ELSE da_put_ul(Append(da, uc + Pow2(LONGUC_SHIFT)),
                      val \div Pow2(LONGUC_SHIFT))

\* The bytes of val, low byte first, as an integer of nr_bytes bytes.
ByteOf(val, i) == IF i <= 3 THEN (val \div (256 ^ (i - 1))) % 256
                  ELSE IF i = 4 THEN (val \div 16777216) % 256 ELSE 0

FixedBytes(val, nr_bytes) == [i \in 1..nr_bytes |-> ByteOf(val, i)]

RECURSIVE AlignCtl(_, _)
AlignCtl(ctl, boundary) ==
    IF Len(ctl) % boundary = 0 THEN ctl ELSE AlignCtl(Append(ctl, 0), boundary)

\* CtlBuilder::AppendFixedInt
AppendFixedInt(ctl, val, nr_bytes) ==
    AlignCtl(ctl, nr_bytes) \o FixedBytes(val, nr_bytes)

\* CtlBuilder::AppendVariableInt
AppendVariableInt(ctl, val) == da_put_ul(ctl, val)

\* CtlBuilder::AppendCtlHead
AppendCtlHead(ctl, nr, rowjmp, flag, size, ucol, ucol_size, full_colind) ==
    LET flags == flag + (IF nr THEN Pow2(CTL_NR_BIT) ELSE 0)
                      + (IF rowjmp # 0 THEN Pow2(CTL_RJMP_BIT) ELSE 0)
        c1 == ctl \o <<flags % 256, size % 256>>
        c2 == IF rowjmp # 0 THEN AppendVariableInt(c1, rowjmp) ELSE c1
    IN IF full_colind THEN AppendFixedInt(c2, ucol, ucol_size)
       ELSE AppendVariableInt(c2, ucol)

(***************************************************************************)
(* Delta.hpp: GetDeltaSize on the eight bytes of a size_t, low byte first. *)
(* Storing into the d8, d16 or d32 member of the union keeps the low 1, 2  *)
(* or 4 bytes; the comparison widens the member back to a size_t.          *)
(***************************************************************************)
Truncated(val, nr_bytes) ==
    [i \in 1..Len(val) |-> IF i <= nr_bytes THEN val[i] ELSE 0]

\* GetDeltaSize that takes the bytes for signed: a byte of 128 or more is
\* sent to the next width.
GetDeltaSizeSigned(val) ==
    IF Truncated(val, 1) = val /\ val[1] < 128 THEN 1
    ELSE IF Truncated(val, 2) = val /\ val[2] < 128 THEN 2
    ELSE IF Truncated(val, 4) = val /\ val[4] < 128 THEN 4
    ELSE 8

GetDeltaSize(val) ==
    IF Truncated(val, 1) = val THEN 1
    ELSE IF Truncated(val, 2) = val THEN 2
    ELSE IF Truncated(val, 4) = val THEN 4
    ELSE 8

SizeT(v) == FixedBytes(v, 8)

(***************************************************************************)
(* Pattern ids.  A delta unit of w bytes has id 8 * w; a pattern has       *)
(* 10000 * type + delta (jit.cc switches on these ranges).                 *)
(***************************************************************************)
PID_OFFSET == 10000

DeltaPatternId(delta_bytes) == 8 * delta_bytes

ElemPatternId(e) == PID_OFFSET * e.pattern + e.delta

(***************************************************************************)
(* CsxManager (CsxManager.hpp).  The manager is the record m of its        *)
(* fields; ret holds the value the last GetFlag returned, aborted tells    *)
(* that an assertion failed, flaglog lists the GetFlag calls.              *)
(***************************************************************************)
Uninit == -999
IndexTypeSize == 4
BlockRowMin == BLOCK_ROW_TYPE_NAME(1)

NoPatterns == [id \in {} |-> [flag |-> 0, npatterns |-> 0, nr |-> 0]]

\* A manager that, made after a finished run, starts from a flag count the
\* earlier run left behind.
NewCsxManagerStale(full_column_indices) ==
    [patterns |-> NoPatterns,
     flag_avail |-> IF pc = "done" THEN 1 ELSE 0,
     row_jmps |-> FALSE,
     full_column_indices |-> full_column_indices,
     values |-> <<>>,
     rows_info |-> <<>>,
     span |-> 0,
     values_idx |-> 0,
     ctl |-> <<>>,
     last_col |-> 0,
     new_row |-> FALSE,
     empty_rows |-> 0,
     curr_row |-> 0,
     ret |-> 0,
     aborted |-> FALSE,
     flaglog |-> <<>>,
     csx |-> [made |-> FALSE]]

\* The constructor CsxManager(spm); values_ and rows_info_ are allocated by
\* MakeCsx.
NewCsxManager(full_column_indices) ==
    [patterns |-> NoPatterns,
     flag_avail |-> 0,
     row_jmps |-> FALSE,
     full_column_indices |-> full_column_indices,
     values |-> <<>>,
     rows_info |-> <<>>,
     span |-> 0,
     values_idx |-> 0,
     ctl |-> <<>>,
     last_col |-> 0,
     new_row |-> FALSE,
     empty_rows |-> 0,
     curr_row |-> 0,
     ret |-> 0,
     aborted |-> FALSE,
     flaglog |-> <<>>,
     csx |-> [made |-> FALSE]]

\* CsxManager::GetFlag
GetFlag(m, pattern_id, nnz) ==
    IF pattern_id \notin DOMAIN m.patterns
    THEN LET ret == m.flag_avail
         IN IF ret <= CTL_PATTERNS_MAX
            THEN [m EXCEPT
                    !.flag_avail = (@ + 1) % 256,
                    !.patterns = [id \in DOMAIN @ \cup {pattern_id} |->
                                     IF id = pattern_id
                                     THEN [flag |-> ret, npatterns |-> 1,
                                           nr |-> nnz]
                                     ELSE @[id]],
                    !.ret = ret,
                    !.flaglog = Append(@, [id |-> pattern_id, flag |-> ret])]
            ELSE [m EXCEPT !.flag_avail = (@ + 1) % 256, !.aborted = TRUE]
    ELSE [m EXCEPT
            !.patterns[pattern_id] = [flag |-> @.flag,
                                      npatterns |-> @.npatterns + 1,
                                      nr |-> @.nr + nnz],
            !.ret = m.patterns[pattern_id].flag,
            !.flaglog = Append(@, [id |-> pattern_id,
                                   flag |-> m.patterns[pattern_id].flag])]

\* UpdateNewRow with the row jump one short: the number of empty rows
\* instead of the distance to the row.
UpdateNewRowShort(m) ==
    IF m.new_row
    THEN IF m.empty_rows # 0
         THEN [nr |-> TRUE, rowjmp |-> m.empty_rows,
               m |-> [m EXCEPT !.new_row = FALSE, !.empty_rows = 0,
                               !.row_jmps = TRUE]]
         ELSE [nr |-> TRUE, rowjmp |-> 0, m |-> [m EXCEPT !.new_row = FALSE]]
    ELSE [nr |-> FALSE, rowjmp |-> 0, m |-> m]

\* UpdateNewRow that leaves empty_rows_ as it was.
UpdateNewRowKeep(m) ==
    IF m.new_row
    THEN IF m.empty_rows # 0
         THEN [nr |-> TRUE, rowjmp |-> m.empty_rows + 1,
               m |-> [m EXCEPT !.new_row = FALSE, !.row_jmps = TRUE]]
         ELSE [nr |-> TRUE, rowjmp |-> 0, m |-> [m EXCEPT !.new_row = FALSE]]
    ELSE [nr |-> FALSE, rowjmp |-> 0, m |-> m]

\* UpdateNewRow that writes a row jump without recording it in row_jmps_.
UpdateNewRowUnflagged(m) ==
    IF m.new_row
    THEN IF m.empty_rows # 0
         THEN [nr |-> TRUE, rowjmp |-> m.empty_rows + 1,
               m |-> [m EXCEPT !.new_row = FALSE, !.empty_rows = 0]]
         ELSE [nr |-> TRUE, rowjmp |-> 0, m |-> [m EXCEPT !.new_row = FALSE]]
    ELSE [nr |-> FALSE, rowjmp |-> 0, m |-> m]

\* CsxManager::UpdateNewRow: the pair (nr, rowjmp) and the manager after it.
UpdateNewRow(m) ==
    IF m.new_row
    THEN IF m.empty_rows # 0
         THEN [nr |-> TRUE, rowjmp |-> m.empty_rows + 1,
               m |-> [m EXCEPT !.new_row = FALSE, !.empty_rows = 0,
                               !.row_jmps = TRUE]]
         ELSE [nr |-> TRUE, rowjmp |-> 0, m |-> [m EXCEPT !.new_row = FALSE]]
    ELSE [nr |-> FALSE, rowjmp |-> 0, m |-> m]

\* The helper DeltaEncode(start, end, x0) of CsxManager.hpp.
DeltaEncodeFrom(cols, x0) ==
    [i \in 1..Len(cols) |-> IF i = 1 THEN cols[1] - x0 ELSE cols[i] - cols[i - 1]]

\* The deltas appended behind padding bytes that are left as they were
\* in memory, here 255, instead of being cleared.
AppendDeltasDirty(ctl, deltas, i, delta_bytes) ==
    IF i > Len(deltas) THEN ctl
    ELSE [j \in 1..Len(AlignCtl(ctl, delta_bytes)) |->
             IF j > Len(ctl) THEN 255 ELSE ctl[j]]
             \o [j \in 1..((Len(deltas) - i + 1) * delta_bytes) |->
                    ByteOf(deltas[i + ((j - 1) \div delta_bytes)],
                           ((j - 1) % delta_bytes) + 1)]

\* AppendFixedInt of deltas[i], deltas[i + 1], ..: the first one pads ctl
\* to a multiple of delta_bytes, after which every one finds it aligned,
\* so the bytes of the deltas follow each other.
AppendDeltas(ctl, deltas, i, delta_bytes) ==
    IF i > Len(deltas) THEN ctl
    ELSE AlignCtl(ctl, delta_bytes)
             \o [j \in 1..((Len(deltas) - i + 1) * delta_bytes) |->
                    ByteOf(deltas[i + ((j - 1) \div delta_bytes)],
                           ((j - 1) % delta_bytes) + 1)]

\* AddCols that leaves last_col_ at the last column of the unit before.
AddColsStale(m, cols) ==
    LET cols_size == Len(cols)
        last_col == cols[cols_size]
        col_start == cols[1]
        deltas == DeltaEncodeFrom(cols, m.last_col)
        max == IF cols_size > 1 THEN MaxSeq(Tail(deltas)) ELSE 0
        delta_bytes == GetDeltaSize(SizeT(max))
        patt_id == DeltaPatternId(delta_bytes)
        newrow_info == UpdateNewRow(m)
        ucol == IF m.full_column_indices THEN col_start - 1 ELSE deltas[1]
        m1 == GetFlag(newrow_info.m, patt_id, cols_size)
    IN IF m1.aborted \/ ~(cols_size > 0 /\ cols_size <= CTL_SIZE_MAX)
       THEN [m1 EXCEPT !.aborted = TRUE]
       ELSE [m1 EXCEPT !.ctl =
                AppendDeltas(AppendCtlHead(@, newrow_info.nr, newrow_info.rowjmp,
                                           m1.ret, cols_size, ucol,
                                           IndexTypeSize, m.full_column_indices),
                             deltas, 2, delta_bytes)]

\* CsxManager::AddCols
AddCols(m, cols) ==
    LET cols_size == Len(cols)
        last_col == cols[cols_size]
        col_start == cols[1]
        deltas == DeltaEncodeFrom(cols, m.last_col)
        max == IF cols_size > 1 THEN MaxSeq(Tail(deltas)) ELSE 0
        delta_bytes == GetDeltaSize(SizeT(max))
        patt_id == DeltaPatternId(delta_bytes)
        newrow_info == UpdateNewRow([m EXCEPT !.last_col = last_col])
        ucol == IF m.full_column_indices THEN col_start - 1 ELSE deltas[1]
        m1 == GetFlag(newrow_info.m, patt_id, cols_size)
    IN IF m1.aborted \/ ~(cols_size > 0 /\ cols_size <= CTL_SIZE_MAX)
       THEN [m1 EXCEPT !.aborted = TRUE]
       ELSE [m1 EXCEPT !.ctl =
                AppendDeltas(AppendCtlHead(@, newrow_info.nr, newrow_info.rowjmp,
                                           m1.ret, cols_size, ucol,
                                           IndexTypeSize, m.full_column_indices),
                             deltas, 2, delta_bytes)]

\* GetLastCol(elem, Horizontal): the last column a pattern covers in the
\* row of its anchor.
GetLastCol(e) ==
    IF e.pattern = HORIZONTAL THEN e.x + e.delta * (e.size - 1)
    ELSE IF IsBlockRowType(e.pattern)
         THEN e.x + (e.size \div isBlockType(e.pattern)) - 1
    ELSE IF IsBlockColType(e.pattern) THEN e.x + isBlockType(e.pattern) - 1
    ELSE e.x

\* AddPattern with the column of the pattern as its column jump.
AddPatternAbsolute(m, elem) ==
    LET patt_id == ElemPatternId(elem)
        patt_size == elem.size
        newrow_info == UpdateNewRow(m)
        ucol == elem.x
        m1 == GetFlag(newrow_info.m, patt_id, patt_size)
    IN IF m1.aborted \/ ~(patt_size <= CTL_SIZE_MAX)
       THEN [m1 EXCEPT !.aborted = TRUE]
       ELSE [m1 EXCEPT !.ctl = AppendCtlHead(@, newrow_info.nr,
                                             newrow_info.rowjmp, m1.ret,
                                             patt_size, ucol, IndexTypeSize,
                                             m.full_column_indices),
                       !.last_col = GetLastCol(elem)]

\* CsxManager::AddPattern
AddPattern(m, elem) ==
    LET patt_id == ElemPatternId(elem)
        patt_size == elem.size
        newrow_info == UpdateNewRow(m)
        ucol == IF m.full_column_indices THEN elem.x - 1
                ELSE elem.x - m.last_col
        m1 == GetFlag(newrow_info.m, patt_id, patt_size)
    IN IF m1.aborted \/ ~(patt_size <= CTL_SIZE_MAX)
       THEN [m1 EXCEPT !.aborted = TRUE]
       ELSE [m1 EXCEPT !.ctl = AppendCtlHead(@, newrow_info.nr,
                                             newrow_info.rowjmp, m1.ret,
                                             patt_size, ucol, IndexTypeSize,
                                             m.full_column_indices),
                       !.last_col = GetLastCol(elem)]

\* PreparePat that forgets the pending columns instead of emitting them.
PreparePatDrop(m, cols) == m

\* CsxManager::PreparePat
PreparePat(m, cols) == IF cols # <<>> THEN AddCols(m, cols) ELSE m

\* UpdateRowSpan that keeps the span of the last pattern of the row.
UpdateRowSpanLast(m, elem) ==
    LET type == elem.pattern
        span == IF type \in {VERTICAL, DIAGONAL, REV_DIAGONAL}
                THEN (elem.size - 1) * elem.delta
                ELSE IF IsBlockRowType(type) THEN type - BlockRowMin
                ELSE IF IsBlockColType(type)
                     THEN (elem.size \div isBlockType(type)) - 1
                ELSE 0
    IN [m EXCEPT !.span = span]

\* CsxManager::UpdateRowSpan
UpdateRowSpan(m, elem) ==
    LET type == elem.pattern
        span == IF type \in {VERTICAL, DIAGONAL, REV_DIAGONAL}
                THEN (elem.size - 1) * elem.delta
                ELSE IF IsBlockRowType(type) THEN type - BlockRowMin
                ELSE IF IsBlockColType(type)
                     THEN (elem.size \div isBlockType(type)) - 1
                ELSE 0
    IN IF span > m.span THEN [m EXCEPT !.span = span] ELSE m

\* values_[values_idx_++] = v
PutValue(m, v) ==
    [m EXCEPT !.values = IF m.values_idx < Len(@)
                         THEN [@ EXCEPT ![m.values_idx + 1] = v]
                         ELSE Append(@, v),
              !.values_idx = @ + 1]

\* PutValues that writes the values of a pattern last to first.
RECURSIVE PutValuesReversed(_, _)
PutValuesReversed(m, vs) ==
    IF vs = <<>> THEN m
    ELSE PutValuesReversed(PutValue(m, vs[Len(vs)]), SubSeq(vs, 1, Len(vs) - 1))

\* copy(elem_vals, elem_vals + size, values_ + values_idx_) and
\* values_idx_ += size.
PutValues(m, vs) ==
    [m EXCEPT !.values = [i \in 1..Max2(Len(@), m.values_idx + Len(vs)) |->
                             IF i > m.values_idx /\ i <= m.values_idx + Len(vs)
                             THEN vs[i - m.values_idx]
                             ELSE @[i]],
              !.values_idx = @ + Len(vs)]

\* The body of the loop of DoRow that lets one column more gather before
\* it emits the pending ones.
DoRowElemLate(m, e, cols) ==
    IF IsPattern(e)
    THEN [m |-> PutValues(AddPattern(PreparePat(UpdateRowSpan(m, e), cols), e),
                          e.vals),
          cols |-> <<>>]
    ELSE IF Len(cols) = CTL_SIZE_MAX + 1
         THEN [m |-> PutValue(AddCols(m, cols), e.vals[1]), cols |-> <<e.x>>]
         ELSE [m |-> PutValue(m, e.vals[1]), cols |-> Append(cols, e.x)]

\* The body of the loop of CsxManager::DoRow for the element e, with cols
\* pending: the manager and the pending columns after it.
DoRowElem(m, e, cols) ==
    IF IsPattern(e)
    THEN [m |-> PutValues(AddPattern(PreparePat(UpdateRowSpan(m, e), cols), e),
                          e.vals),
          cols |-> <<>>]
    ELSE IF Len(cols) = CTL_SIZE_MAX
         THEN [m |-> PutValue(AddCols(m, cols), e.vals[1]), cols |-> <<e.x>>]
         ELSE [m |-> PutValue(m, e.vals[1]), cols |-> Append(cols, e.x)]

\* The loop of CsxManager::DoRow from element i on, with cols pending.
RECURSIVE DoRowFrom(_, _, _, _)
DoRowFrom(m, row, i, cols) ==
    IF m.aborted THEN m
    ELSE IF i > Len(row) THEN (IF cols # <<>> THEN AddCols(m, cols) ELSE m)
    ELSE LET r == DoRowElem(m, row[i], cols)
         IN DoRowFrom(r.m, row, i + 1, r.cols)

\* CsxManager::DoRow
DoRow(m, row) == DoRowFrom([m EXCEPT !.span = 0, !.last_col = 1], row, 1, <<>>)

\* CsxManager::AddMappings: the writes to map, in ascending order of the
\* pattern id, then the sentinel.  An index past the end of the table of
\* CTL_PATTERNS_MAX + 1 entries is kept in oob.
IdMapSize == CTL_PATTERNS_MAX + 1

AddMappings(m) ==
    LET n == Cardinality(DOMAIN m.patterns)
        flagOf(f) == {id \in DOMAIN m.patterns : m.patterns[id].flag = f}
    IN [map |-> [f \in 0..(IdMapSize - 1) |->
                    IF f = n THEN -1
                    ELSE IF flagOf(f) # {} THEN CHOOSE id \in flagOf(f) : TRUE
                    ELSE Uninit],
        oob |-> {f \in {n} \cup {m.patterns[id].flag : id \in DOMAIN m.patterns} :
                    f >= IdMapSize}]

(***************************************************************************)
(* The decoder: one forward sweep over ctl (jit.cc: doNewRowHook,          *)
(* DeltaCase, HorizCase, VertCase, DiagCase; ul_get of the JIT module).    *)
(* The state of the sweep is [pos, y, x, vi, out, units, ok]: pos the      *)
(* offset of the next byte, (y, x) the 0-based position, vi the number of  *)
(* values consumed.                                                        *)
(***************************************************************************)
CTL_PATTERN_MASK == Pow2(CTL_NR_BIT) - 1

ByteAt(ctl, pos) == IF pos < Len(ctl) THEN ctl[pos + 1] ELSE 0

\* ul_get, the varint read of the decoder: [val, pos] after reading a
\* variable-length integer at pos, the inverse of da_put_ul.
RECURSIVE UlGetFrom(_, _, _, _)
UlGetFrom(ctl, pos, val, shift) ==
    LET uc == ByteAt(ctl, pos)
    IN IF uc > 127 /\ pos < Len(ctl)
       THEN UlGetFrom(ctl, pos + 1, val + (uc - 128) * Pow2(shift), shift + 7)
       ELSE [val |-> val + uc * Pow2(shift), pos |-> pos + 1]

ul_get(ctl, pos) == UlGetFrom(ctl, pos, 0, 0)

\* The loop of the macro uc_get_ul of csx.cc.  Each turn reads a byte into
\* uc and then tests and adds uc1, the macro's own _uc, which is never
\* assigned: it holds what was in memory, less 128 after each turn.
RECURSIVE UcGetUlLoop(_, _, _, _, _)
UcGetUlLoop(ctl, pos, val, shift, uc1) ==
    IF uc1 > 127
    THEN UcGetUlLoop(ctl, pos + 1, val + (uc1 - 128) * Pow2(shift), shift + 7,
                     uc1 - 128)
    ELSE [val |-> val + uc1 * Pow2(shift), pos |-> pos + 1]

\* The macro uc_get_ul of csx.cc, uc1 being the value _uc happens to hold.
uc_get_ul(ctl, pos, uc1) ==
    LET val == ByteAt(ctl, pos)
    IN IF val > 127 THEN UcGetUlLoop(ctl, pos + 1, val - 128, 7, uc1)
       ELSE [val |-> val, pos |-> pos + 1]

AlignPos(pos, boundary) ==
    IF pos % boundary = 0 THEN pos ELSE pos + boundary - (pos % boundary)

\* u8_get .. u64_get
RECURSIVE FixedGet(_, _, _)
FixedGet(ctl, pos, nr_bytes) ==
    IF nr_bytes = 0 THEN 0
    ELSE ByteAt(ctl, pos) + 256 * FixedGet(ctl, pos + 1, nr_bytes - 1)

\* The 0-based (row, column) of the i-th element (from 0) of a pattern of
\* the given type, delta and size anchored at (y, x).
PatternCoord(type, delta, size, y, x, i) ==
    IF type = HORIZONTAL THEN <<y, x + i * delta>>
    ELSE IF type = VERTICAL THEN <<y + i * delta, x>>
    ELSE IF type = DIAGONAL THEN <<y + i * delta, x + i * delta>>
    ELSE IF type = REV_DIAGONAL THEN <<y + i * delta, x - i * delta>>
    ELSE IF IsBlockRowType(type)
         THEN <<y + (i % isBlockType(type)), x + (i \div isBlockType(type))>>
    ELSE <<y + (i \div isBlockType(type)), x + (i % isBlockType(type))>>

\* The deltas of a delta unit: size - 1 integers of nr_bytes bytes from pos.
DeltasAt(ctl, pos, n, nr_bytes) ==
    [i \in 1..n |-> FixedGet(ctl, pos + (i - 1) * nr_bytes, nr_bytes)]

PrefixSums(x0, ds) == [i \in 1..Len(ds) |-> x0 + SumRange(ds, 1, i)]

IsDeltaId(id) == id \in {8, 16, 32, 64}

DecodeUnit(c, st) ==
    LET ctl == c.ctl
        flags == ByteAt(ctl, st.pos)
        size == ByteAt(ctl, st.pos + 1)
        flag == flags % (CTL_PATTERN_MASK + 1)
        nr == (flags \div Pow2(CTL_NR_BIT)) % 2 = 1
        rjmp == (flags \div Pow2(CTL_RJMP_BIT)) % 2 = 1
        readrj == nr /\ c.row_jumps /\ rjmp
        rj == IF readrj THEN ul_get(ctl, st.pos + 2)
              ELSE [val |-> 1, pos |-> st.pos + 2]
        y == IF nr THEN st.y + rj.val ELSE st.y
        x0 == IF nr THEN 0 ELSE st.x
        colpos == IF c.full_column_indices THEN AlignPos(rj.pos, IndexTypeSize)
                  ELSE rj.pos
        uc == IF c.full_column_indices
              THEN [val |-> FixedGet(ctl, colpos, IndexTypeSize),
                    pos |-> colpos + IndexTypeSize]
              ELSE ul_get(ctl, colpos)
        x == IF c.full_column_indices THEN uc.val ELSE x0 + uc.val
        id == IF flag < IdMapSize THEN c.id_map[flag] ELSE Uninit
        vals == [i \in 1..size |->
                    IF st.vi + i <= Len(c.values) THEN c.values[st.vi + i]
                    ELSE Uninit]
        base == [pos0 |-> st.pos, flags |-> flags, flag |-> flag,
                 size |-> size, nr |-> nr, rjmp |-> rjmp, rowjmp |-> rj.val,
                 hasrowjmp |-> readrj, ucol |-> uc.val, colpos |-> colpos,
                 id |-> id, row |-> y, col |-> x, vi |-> st.vi]
    IN IF IsDeltaId(id)
       THEN LET w == id \div 8
                bodypos == AlignPos(uc.pos, w)
                ds == DeltasAt(ctl, bodypos, size - 1, w)
                xs == <<x>> \o PrefixSums(x, ds)
            IN [pos |-> IF size > 1 THEN bodypos + (size - 1) * w ELSE uc.pos,
                y |-> y, x |-> xs[Len(xs)], vi |-> st.vi + size,
                out |-> st.out \o [i \in 1..size |->
                                     <<y + 1, xs[i] + 1, vals[i]>>],
                units |-> Append(st.units,
                              base @@ [deltas |-> ds, width |-> w,
                                       bodypos |-> bodypos, endpos |-> uc.pos]),
                ok |-> st.ok /\ size >= 1]
       ELSE LET type == id \div PID_OFFSET
                delta == id % PID_OFFSET
                co(i) == PatternCoord(type, delta, size, y, x, i)
                xend == IF type = HORIZONTAL \/ isBlockType(type) # 0
                        THEN co(size - 1)[2] ELSE x
            IN [pos |-> uc.pos, y |-> y, x |-> xend, vi |-> st.vi + size,
                out |-> st.out \o [i \in 1..size |->
                                     <<co(i - 1)[1] + 1, co(i - 1)[2] + 1,
                                       vals[i]>>],
                units |-> Append(st.units,
                              base @@ [deltas |-> <<>>, width |-> 0,
                                       bodypos |-> uc.pos, endpos |-> uc.pos]),
                ok |-> st.ok /\ size >= 1 /\ id >= PID_OFFSET
                       /\ type \in AllTypes /\ type # NONE]

RECURSIVE DecodeFrom(_, _)
DecodeFrom(c, st) ==
    IF st.pos >= c.ctl_size THEN [st EXCEPT !.ok = @ /\ st.pos = c.ctl_size]
    ELSE IF ~st.ok THEN st
    ELSE DecodeFrom(c, DecodeUnit(c, st))

Decode(c) ==
    DecodeFrom(c, [pos |-> 0, y |-> 0, x |-> 0, vi |-> 0, out |-> <<>>,
                   units |-> <<>>, ok |-> TRUE])

(***************************************************************************)
(* The run: a partition is built from coordinate input, EncodeAll encodes  *)
(* it, MakeCsx assembles the CSX matrix.                                   *)
(***************************************************************************)
MinLimit == 2
MaxLimit == 2 * MaxAlign

CandidateTypes ==
    {HORIZONTAL, VERTICAL, DIAGONAL, REV_DIAGONAL}
        \cup {BLOCK_ROW_TYPE_NAME(k) : k \in 2..MaxAlign}
        \cup {BLOCK_COL_TYPE_NAME(k) : k \in 2..MaxAlign}

\* The configurations: the minimum share of the nonzeros a delta must cover
\* is 1/10 or 6/10, the column references are jumps or full indices.
Config(num, full) ==
    [min_limit |-> MinLimit, max_limit |-> MaxLimit,
     min_perc_num |-> num, min_perc_den |-> 10,
     full_column_indices |-> full]

Configs == {Config(1, FALSE), Config(1, TRUE), Config(6, FALSE)}

\* The configuration of doEncode in jit.cc: runs of at least 4 and at most
\* 255 - 1 elements, a delta kept if it covers a tenth of the nonzeros.
DefaultConfig ==
    [min_limit |-> 4, max_limit |-> 255 - 1,
     min_perc_num |-> 1, min_perc_den |-> 10,
     full_column_indices |-> FALSE]

\* A configuration whose min_limit is above the four elements of a block
\* of two by two.
HighLimitConfig ==
    [min_limit |-> 6, max_limit |-> 255 - 1,
     min_perc_num |-> 1, min_perc_den |-> 10,
     full_column_indices |-> FALSE]

CoordLess(p, q) == p[1] < q[1] \/ (p[1] = q[1] /\ p[2] < q[2])

RECURSIVE SortCoords(_)
SortCoords(S) ==
    IF S = {} THEN <<>>
    ELSE LET p == CHOOSE p \in S : \A q \in S \ {p} : CoordLess(p, q)
         IN <<p>> \o SortCoords(S \ {p})

\* The partition built from coordinate input, in Horizontal order.
NewPartition(in) ==
    LET cs == SortCoords(in.coords)
    IN [type |-> HORIZONTAL,
        elems |-> [i \in 1..Len(cs) |->
                      PlainElem(cs[i][1], cs[i][2], ValueAt(cs[i][1], cs[i][2]))],
        nnz |-> Len(cs),
        nr_rows |-> in.nr_rows,
        nr_cols |-> in.nr_cols,
        rowptr_rows |-> in.rowptr_rows]

NewDrle ==
    [stats |-> EmptyStatsMap,
     DeltasToEncode |-> [t \in AllTypes |-> {}],
     xforms_ignore |-> AllTypes \ CandidateTypes,
     chosen |-> <<>>]

LastRow(coords) ==
    IF coords = {} THEN 0
    ELSE CHOOSE r \in {p[1] : p \in coords} : \A p \in coords : p[1] <= r

DenseInputs ==
    {[coords |-> S, nr_rows |-> NRows, nr_cols |-> NCols, rowptr_rows |-> n,
      cfg |-> cfg] :
        S \in {T \in SUBSET ((1..NRows) \X (1..NCols)) : Cardinality(T) <= MaxNnz},
        n \in 1..NRows, cfg \in Configs}

\* Matrices past the dense ones: a run longer than max_limit, the 5x5
\* identity, a row of mixed deltas, a row jump, columns whose jumps and
\* deltas need two and four bytes, a block followed by plain elements,
\* two columns of different heights, a row whose run of delta 3 is broken
\* by an element of a column, dense matrices of two rows whose blocks are
\* longer than the aligned max_limit, one-row matrices of one dense run,
\* a block of two by two at column 1 and at column 3, a column and a row
\* that share their first element, a dense row crossed by six columns
\* of three that leave it the columns 1, 4, 7, 10, 11, 12, two rows
\* between two empty rows above and one below.
\* The delta of every run stays below PID_OFFSET.
WideMatrices ==
    {[coords |-> {<<1, c>> : c \in 1..10}, nr_rows |-> 1, nr_cols |-> 10],
     [coords |-> (1..2) \X (1..4), nr_rows |-> 2, nr_cols |-> 4],
     [coords |-> (1..2) \X (1..5), nr_rows |-> 2, nr_cols |-> 5],
     [coords |-> (1..2) \X (1..2), nr_rows |-> 2, nr_cols |-> 2],
     [coords |-> (1..2) \X (3..4), nr_rows |-> 2, nr_cols |-> 4],
     [coords |-> {<<1, 3>>, <<2, 3>>, <<3, 3>>, <<4, 3>>, <<1, 4>>, <<1, 5>>,
                  <<1, 6>>},
      nr_rows |-> 4, nr_cols |-> 6],
     [coords |-> {<<2, c>> : c \in 1..12}
                    \cup ((1..3) \X {2, 3, 5, 6, 8, 9}),
      nr_rows |-> 3, nr_cols |-> 12],
     [coords |-> {<<1, c>> : c \in 1..2}, nr_rows |-> 1, nr_cols |-> 2],
     [coords |-> {<<1, c>> : c \in 1..3}, nr_rows |-> 1, nr_cols |-> 3],
     [coords |-> {<<1, c>> : c \in 1..4}, nr_rows |-> 1, nr_cols |-> 4],
     [coords |-> {<<1, 1>>, <<2, 1>>, <<3, 1>>, <<1, 3>>, <<2, 3>>},
      nr_rows |-> 3, nr_cols |-> 3],
     [coords |-> {<<1, 4>>, <<2, 3>>, <<2, 4>>, <<2, 6>>, <<2, 9>>},
      nr_rows |-> 2, nr_cols |-> 9],
     [coords |-> {<<i, i>> : i \in 1..5}, nr_rows |-> 5, nr_cols |-> 5],
     [coords |-> {<<1, 1>>, <<1, 3>>, <<1, 5>>, <<1, 9>>, <<1, 10>>},
      nr_rows |-> 1, nr_cols |-> 10],
     [coords |-> {<<1, 2>>, <<4, 1>>, <<4, 3>>}, nr_rows |-> 4, nr_cols |-> 3],
     [coords |-> {<<1, 1>>, <<1, 300>>, <<1, 301>>, <<1, 70000>>, <<2, 129>>,
                  <<2, 130>>, <<2, 16500>>},
      nr_rows |-> 2, nr_cols |-> 70001],
     [coords |-> {<<1, 200>>, <<1, 500>>, <<1, 800>>, <<1, 1100>>, <<2, 70000>>,
                  <<2, 79000>>, <<2, 88000>>, <<2, 88001>>},
      nr_rows |-> 3, nr_cols |-> 88001],
     [coords |-> {<<1, 1>>, <<1, 2>>, <<1, 3>>, <<1, 5>>, <<2, 1>>, <<2, 2>>,
                  <<2, 4>>, <<3, 4>>, <<4, 4>>, <<4, 5>>},
      nr_rows |-> 4, nr_cols |-> 5],
     [coords |-> {<<1, 4>>, <<2, 3>>, <<3, 2>>, <<4, 1>>, <<2, 5>>, <<3, 5>>,
                  <<4, 5>>, <<4, 2>>, <<4, 3>>},
      nr_rows |-> 5, nr_cols |-> 5],
     [coords |-> {<<3, 1>>, <<3, 2>>, <<4, 2>>}, nr_rows |-> 5, nr_cols |-> 2]}

WideInputs ==
    {[coords |-> w.coords, nr_rows |-> w.nr_rows, nr_cols |-> w.nr_cols,
      rowptr_rows |-> n, cfg |-> cfg] :
        w \in WideMatrices, n \in 1..5, cfg \in Configs \cup {DefaultConfig, HighLimitConfig}}

Inputs == {in \in DenseInputs \cup WideInputs :
              in.rowptr_rows \in {Max2(LastRow(in.coords), 1), in.nr_rows}}

NoCsx == [made |-> FALSE]

Init ==
    /\ input \in Inputs
    /\ spm = NewPartition(input)
    /\ drle = NewDrle
    /\ run1 = NoCsx
    /\ pc = "EncodeAll"
    /\ mgr = NewCsxManager(input.cfg.full_column_indices)

\* One iteration of the loop of DRLE_Manager::EncodeAll: genAllStats,
\* chooseType and, unless the type is NONE, Encode(type).  The result is
\* the partition, the manager and whether the loop goes on.  chosen keeps,
\* for each iteration that encoded, the type, its score and the scores of
\* all the types that had statistics.
EncodeAllBody(p, d, cfg) ==
    LET g == genAllStats(p, d, cfg)
        type == chooseType(g.stats)
        d1 == [d EXCEPT !.stats = g.stats, !.DeltasToEncode = g.DeltasToEncode]
    IN IF type = NONE
       THEN [spm |-> g.spm, drle |-> d1, again |-> FALSE]
       ELSE [spm |-> EncodePartition(g.spm, type, g.DeltasToEncode[type], cfg),
             drle |-> [d1 EXCEPT
                         !.xforms_ignore = addIgnore(@, type),
                         !.chosen = Append(@,
                             [type |-> type,
                              score |-> getTypeScore(g.stats, type),
                              scores |-> [t \in DOMAIN g.stats |->
                                             getTypeScore(g.stats, t)]])],
             again |-> TRUE]

EncodeAllIter ==
    /\ pc = "EncodeAll"
    /\ \E r \in {EncodeAllBody(spm, drle, input.cfg)} :
          /\ spm' = r.spm
          /\ drle' = r.drle
          /\ pc' = IF r.again THEN "EncodeAll" ELSE "MakeCsx"
    /\ UNCHANGED <<input, mgr, run1>>

\* MakeCsx up to its loop over the rows: the allocations and the resets.
MakeCsxBegin ==
    /\ pc = "MakeCsx"
    /\ mgr' = [mgr EXCEPT
                  !.values = [i \in 1..spm.nnz |-> Uninit],
                  !.rows_info = [i \in 1..spm.nr_rows |->
                                    [rowptr |-> Uninit, valptr |-> Uninit,
                                     span |-> Uninit]],
                  !.values_idx = 0,
                  !.new_row = FALSE,
                  !.curr_row = 0]
    /\ pc' = "MakeCsxRows"
    /\ UNCHANGED <<input, spm, drle, run1>>

\* The body of the loop of MakeCsx with every empty row counted in
\* empty_rows_, the first one after a non-empty row or at the start too.
MakeCsxRowBodyCounted(m, i, row) ==
    IF row = <<>>
    THEN IF m.new_row = FALSE
         THEN [m EXCEPT !.rows_info[i + 1] = [rowptr |-> 0, valptr |-> 0,
                                              span |-> 0],
                        !.empty_rows = @ + 1,
                        !.new_row = TRUE]
         ELSE [m EXCEPT !.empty_rows = @ + 1,
                        !.rows_info[i + 1] =
                            [rowptr |-> m.rows_info[i].rowptr, valptr |-> 0,
                             span |-> 0]]
    ELSE LET m1 == [m EXCEPT !.rows_info[i + 1] =
                        [rowptr |-> IF i > 0 THEN Len(m.ctl) ELSE 0,
                         valptr |-> m.values_idx,
                         span |-> @.span]]
             m2 == DoRow(m1, row)
         IN [m2 EXCEPT !.rows_info[i + 1].span = m2.span, !.new_row = TRUE]

\* The body of the loop of MakeCsx without new_row_ = true after DoRow.
MakeCsxRowBodyUnmarked(m, i, row) ==
    IF row = <<>>
    THEN IF m.new_row = FALSE
         THEN [m EXCEPT !.rows_info[i + 1] = [rowptr |-> 0, valptr |-> 0,
                                              span |-> 0],
                        !.new_row = TRUE]
         ELSE [m EXCEPT !.empty_rows = @ + 1,
                        !.rows_info[i + 1] =
                            [rowptr |-> m.rows_info[i].rowptr, valptr |-> 0,
                             span |-> 0]]
    ELSE LET m1 == [m EXCEPT !.rows_info[i + 1] =
                        [rowptr |-> IF i > 0 THEN Len(m.ctl) ELSE 0,
                         valptr |-> m.values_idx,
                         span |-> @.span]]
             m2 == DoRow(m1, row)
         IN [m2 EXCEPT !.rows_info[i + 1].span = m2.span]

\* The body of the loop of MakeCsx with the current size of ctl as the
\* rowptr of an empty row.
MakeCsxRowBodyCurrent(m, i, row) ==
    IF row = <<>>
    THEN IF m.new_row = FALSE
         THEN [m EXCEPT !.rows_info[i + 1] = [rowptr |-> 0, valptr |-> 0,
                                              span |-> 0],
                        !.new_row = TRUE]
         ELSE [m EXCEPT !.empty_rows = @ + 1,
                        !.rows_info[i + 1] =
                            [rowptr |-> Len(m.ctl), valptr |-> 0,
                             span |-> 0]]
    ELSE LET m1 == [m EXCEPT !.rows_info[i + 1] =
                        [rowptr |-> IF i > 0 THEN Len(m.ctl) ELSE 0,
                         valptr |-> m.values_idx,
                         span |-> @.span]]
             m2 == DoRow(m1, row)
         IN [m2 EXCEPT !.rows_info[i + 1].span = m2.span, !.new_row = TRUE]

\* The body of the loop of MakeCsx for row i (from 0).
MakeCsxRowBody(m, i, row) ==
    IF row = <<>>
    THEN IF m.new_row = FALSE
         THEN [m EXCEPT !.rows_info[i + 1] = [rowptr |-> 0, valptr |-> 0,
                                              span |-> 0],
                        !.new_row = TRUE]
         ELSE [m EXCEPT !.empty_rows = @ + 1,
                        !.rows_info[i + 1] =
                            [rowptr |-> m.rows_info[i].rowptr, valptr |-> 0,
                             span |-> 0]]
    ELSE LET m1 == [m EXCEPT !.rows_info[i + 1] =
                        [rowptr |-> IF i > 0 THEN Len(m.ctl) ELSE 0,
                         valptr |-> m.values_idx,
                         span |-> @.span]]
             m2 == DoRow(m1, row)
         IN [m2 EXCEPT !.rows_info[i + 1].span = m2.span, !.new_row = TRUE]

MakeCsxRow ==
    /\ pc = "MakeCsxRows"
    /\ mgr.curr_row < spm.rowptr_rows
    /\ ~mgr.aborted
    /\ \E m \in {MakeCsxRowBody(mgr, mgr.curr_row,
                                 RowOf(spm, mgr.curr_row + 1))} :
          /\ mgr' = [m EXCEPT !.curr_row = @ + 1]
          /\ pc' = IF m.aborted THEN "abort" ELSE "MakeCsxRows"
    /\ UNCHANGED <<input, spm, drle, run1>>

\* The loop of MakeCsx over the rows past the row pointers.
RECURSIVE TrailingRows(_, _, _)
TrailingRows(rows_info, i, nr_rows) ==
    IF i >= nr_rows THEN rows_info
    ELSE TrailingRows([rows_info EXCEPT
                          ![i + 1] = [rowptr |-> rows_info[i].rowptr,
                                      valptr |-> 0, span |-> 0]],
                      i + 1, nr_rows)

\* MakeCsx after its loop over the rows: the csx matrix is filled in.
MakeCsxEnd ==
    /\ pc = "MakeCsxRows"
    /\ mgr.curr_row = spm.rowptr_rows
    /\ LET rows_info == TrailingRows(mgr.rows_info, spm.rowptr_rows, spm.nr_rows)
           maps == AddMappings(mgr)
       IN IF mgr.values_idx # spm.nnz
          THEN /\ mgr' = [mgr EXCEPT !.aborted = TRUE]
               /\ pc' = "abort"
          ELSE /\ mgr' = [mgr EXCEPT
                            !.values = <<>>,
                            !.values_idx = 0,
                            !.rows_info = <<>>,
                            !.csx = [made |-> TRUE,
                                     nnz |-> spm.nnz,
                                     nrows |-> spm.nr_rows,
                                     ncols |-> spm.nr_cols,
                                     row_jumps |-> mgr.row_jmps,
                                     full_column_indices |->
                                         mgr.full_column_indices,
                                     ctl_size |-> Len(mgr.ctl),
                                     ctl |-> mgr.ctl,
                                     values |-> mgr.values,
                                     rows_info |-> rows_info,
                                     id_map |-> maps.map,
                                     id_map_oob |-> maps.oob]]
               /\ pc' = "done"
    /\ UNCHANGED <<input, spm, drle, run1>>

Next == EncodeAllIter \/ MakeCsxBegin \/ MakeCsxRow \/ MakeCsxEnd

Spec == Init /\ [][Next]_vars

\* The driver is one sequential program: it takes its next step as long as
\* it has one.  It has one exactly while it is Running, so this is weak
\* fairness of Next with the enabling condition written out.
Running == pc \in {"EncodeAll", "MakeCsx", "MakeCsxRows"}

FairSpec == Spec /\ ([]<>(~Running) \/ []<><<Next>>_vars)

\* A second run on the same input with the same configuration, with a new
\* DRLE_Manager and a new CsxManager; the result of the first run is kept.
Rerun ==
    /\ pc = "done"
    /\ ~run1.made
    /\ run1' = mgr.csx
    /\ spm' = NewPartition(input)
    /\ drle' = NewDrle
    /\ mgr' = NewCsxManager(input.cfg.full_column_indices)
    /\ pc' = "EncodeAll"
    /\ UNCHANGED input

NextTwice == Next \/ Rerun

SpecTwice == Init /\ [][NextTwice]_vars

\* The nonzeros of the input as (row, col, value).
InputTriples == {<<p[1], p[2], ValueAt(p[1], p[2])>> : p \in input.coords}

SeqToSet(s) == {s[i] : i \in 1..Len(s)}

(***************************************************************************)
(* GetFlag and AddMappings on their own: a new manager is asked for the    *)
(* flags of pattern ids, as AddCols and AddPattern ask during an assembly, *)
(* and AddMappings then fills id_map.  The ids are those of the four delta *)
(* widths and of the patterns of every type with a delta up to             *)
(* MaxFlagDelta.  The first FreeFlags new ids come from FirstIds in any    *)
(* order, the later ones in ascending order; an id of FirstIds comes back  *)
(* up to MaxRepeats times.                                                 *)
(***************************************************************************)
MaxFlagDelta == 4
FreeFlags == 2
MaxRepeats == 1

PatternTypes ==
    {HORIZONTAL, VERTICAL, DIAGONAL, REV_DIAGONAL}
        \cup {BLOCK_ROW_TYPE_NAME(k) : k \in 2..8}
        \cup {BLOCK_COL_TYPE_NAME(k) : k \in 2..8}

PatternIds ==
    {DeltaPatternId(w) : w \in {1, 2, 4, 8}}
        \cup {PID_OFFSET * t + d : t \in PatternTypes, d \in 1..MaxFlagDelta}

FirstIds ==
    {PID_OFFSET * DIAGONAL + 1, PID_OFFSET * VERTICAL + 1, DeltaPatternId(1)}

SeenIds(m) == DOMAIN m.patterns

Repeats(m) == Len(m.flaglog) - Cardinality(SeenIds(m))

FlagChoices(m) ==
    LET unseen == PatternIds \ SeenIds(m)
    IN (IF unseen = {} THEN {} ELSE {SetMinOf(unseen)})
         \cup (IF m.flag_avail < FreeFlags THEN FirstIds \ SeenIds(m) ELSE {})
         \cup (IF Repeats(m) < MaxRepeats THEN FirstIds \cap SeenIds(m) ELSE {})

InitFlags ==
    /\ input = [ids |-> PatternIds]
    /\ spm = <<>>
    /\ drle = <<>>
    /\ run1 = NoCsx
    /\ pc = "GetFlag"
    /\ mgr = NewCsxManager(FALSE)

\* One call of GetFlag, as from AddCols or AddPattern with a unit of nnz
\* nonzeros.
GetFlagCall ==
    /\ pc = "GetFlag"
    /\ \E id \in FlagChoices(mgr), nnz \in {2} :
          \E m \in {GetFlag(mgr, id, nnz)} :
              /\ mgr' = m
              /\ pc' = IF m.aborted THEN "abort" ELSE "GetFlag"
    /\ UNCHANGED <<input, spm, drle, run1>>

\* The end of MakeCsx: AddMappings(csx->id_map).
AddMappingsCall ==
    /\ pc = "GetFlag"
    /\ \E maps \in {AddMappings(mgr)} :
          mgr' = [mgr EXCEPT !.csx = [made |-> TRUE, id_map |-> maps.map,
                                      id_map_oob |-> maps.oob]]
    /\ pc' = "done"
    /\ UNCHANGED <<input, spm, drle, run1>>

NextFlags == GetFlagCall \/ AddMappingsCall

SpecFlags == InitFlags /\ [][NextFlags]_vars

(***************************************************************************)
(* GetDeltaSize and AddCols on their own.  GetDeltaSize is given a size_t  *)
(* of eight bytes, each 0, 1 or 255.  AddCols is given up to MaxCols       *)
(* ascending columns of ColPool, in a manager that DoRow has brought to    *)
(* the start of a row or past an earlier unit that ended at column 1.      *)
(***************************************************************************)
MaxCols == 3

DeltaBytes == {0, 1, 255}

SizeTValues == [1..8 -> DeltaBytes]

ColPool == {2, 3, 200, 258, 300, 65792, 70000, 70300, 17000000}

RECURSIVE Ascending(_)
Ascending(S) ==
    IF S = {} THEN <<>>
    ELSE <<SetMinOf(S)>> \o Ascending(S \ {SetMinOf(S)})

ColSeqs == {Ascending(S) : S \in {T \in SUBSET ColPool :
                                      Cardinality(T) \in 1..MaxCols}}

DeltaInputs ==
    {[kind |-> "val", val |-> v] : v \in SizeTValues}
        \cup {[kind |-> "cols", cols |-> c, new_row |-> nr, full |-> f] :
                 c \in ColSeqs, nr \in BOOLEAN, f \in BOOLEAN}

InitDelta ==
    /\ input \in DeltaInputs
    /\ spm = <<>>
    /\ drle = <<>>
    /\ run1 = NoCsx
    /\ pc = "Delta"
    /\ mgr = NewCsxManager(input.kind = "cols" /\ input.full)

GetDeltaSizeCall ==
    /\ pc = "Delta"
    /\ input.kind = "val"
    /\ drle' = [delta_size |-> GetDeltaSize(input.val)]
    /\ pc' = "done"
    /\ UNCHANGED <<input, spm, mgr, run1>>

AddColsCall ==
    /\ pc = "Delta"
    /\ input.kind = "cols"
    /\ \E m \in {AddCols([mgr EXCEPT !.last_col = 1,
                                     !.new_row = input.new_row],
                         input.cols)} :
          mgr' = [m EXCEPT !.csx = [made |-> TRUE,
                                    ctl |-> m.ctl,
                                    ctl_size |-> Len(m.ctl),
                                    row_jumps |-> m.row_jmps,
                                    full_column_indices |-> m.full_column_indices,
                                    values |-> <<>>,
                                    id_map |-> AddMappings(m).map]]
    /\ pc' = "done"
    /\ UNCHANGED <<input, spm, drle, run1>>

NextDelta == GetDeltaSizeCall \/ AddColsCall

SpecDelta == InitDelta /\ [][NextDelta]_vars

(***************************************************************************)
(* One row through CsxManager::DoRow, an element of the row at a step, for *)
(* rows of more elements than a unit holds.  A row is given by its parts   *)
(* <<a, s, b>>: a plain elements that form no run (the columns go up by 1  *)
(* and 2 in turn), then, if s > 0, a horizontal pattern of delta 1 and     *)
(* size s, then b plain elements.  The manager starts as MakeCsx has it    *)
(* before a row: at the first row, after a row, or after empty rows.       *)
(***************************************************************************)
MaxUnits == 2

PlainCol(base, i) == base + i + ((i - 1) \div 2)

EndOfPlain(base, n) == IF n = 0 THEN base ELSE PlainCol(base, n)

RowLen(parts) == parts[1] + (IF parts[2] > 0 THEN 1 ELSE 0) + parts[3]

RowNnz(parts) == parts[1] + parts[2] + parts[3]

\* The i-th element of the row.
RowElemAt(parts, i) ==
    LET a == parts[1]
        s == parts[2]
        enda == EndOfPlain(0, a)
        npat == IF s > 0 THEN 1 ELSE 0
    IN IF i <= a
       THEN PlainElem(1, PlainCol(0, i), ValueAt(1, PlainCol(0, i)))
       ELSE IF s > 0 /\ i = a + 1
       THEN PatElem(1, enda + 1, HORIZONTAL, 1, s,
                    [j \in 1..s |-> ValueAt(1, enda + j)])
       ELSE PlainElem(1, PlainCol(enda + s, i - a - npat),
                      ValueAt(1, PlainCol(enda + s, i - a - npat)))

\* The (row, col, value) triples the row stands for.
RowTriples(parts) ==
    LET enda == EndOfPlain(0, parts[1])
    IN {<<1, PlainCol(0, i), ValueAt(1, PlainCol(0, i))>> : i \in 1..parts[1]}
         \cup {<<1, enda + j, ValueAt(1, enda + j)>> : j \in 1..parts[2]}
         \cup {<<1, PlainCol(enda + parts[2], i),
                 ValueAt(1, PlainCol(enda + parts[2], i))>> : i \in 1..parts[3]}

RowParts ==
    {<<CTL_SIZE_MAX - 1, 0, 0>>, <<CTL_SIZE_MAX, 0, 0>>,
     <<CTL_SIZE_MAX + 1, 0, 0>>, <<MaxUnits * CTL_SIZE_MAX + 1, 0, 0>>,
     <<CTL_SIZE_MAX, CTL_SIZE_MAX - 1, CTL_SIZE_MAX + 1>>,
     <<0, CTL_SIZE_MAX, 1>>, <<1, MinLimit, CTL_SIZE_MAX - 1>>}

RowInputs ==
    {[parts |-> ps, new_row |-> st[1], empty_rows |-> st[2], full |-> f] :
        ps \in RowParts, st \in {<<FALSE, 0>>, <<TRUE, 0>>, <<TRUE, 2>>},
        f \in BOOLEAN}

InitRow ==
    /\ input \in RowInputs
    /\ spm = <<>>
    /\ drle = [i |-> 1, cols |-> <<>>]
    /\ run1 = NoCsx
    /\ pc = "DoRow"
    /\ mgr = [NewCsxManager(input.full) EXCEPT
                 !.values = [i \in 1..RowNnz(input.parts) |-> Uninit],
                 !.new_row = input.new_row,
                 !.empty_rows = input.empty_rows]

\* DoRow up to its loop.
DoRowEnter ==
    /\ pc = "DoRow"
    /\ mgr' = [mgr EXCEPT !.span = 0, !.last_col = 1]
    /\ pc' = "DoRowLoop"
    /\ UNCHANGED <<input, spm, drle, run1>>

\* One pass of the loop of DoRow.
DoRowPass ==
    /\ pc = "DoRowLoop"
    /\ drle.i <= RowLen(input.parts)
    /\ ~mgr.aborted
    /\ \E r \in {DoRowElem(mgr, RowElemAt(input.parts, drle.i), drle.cols)} :
          /\ mgr' = r.m
          /\ drle' = [i |-> drle.i + 1, cols |-> r.cols]
    /\ UNCHANGED <<input, spm, pc, run1>>

\* DoRow after its loop: the pending columns are emitted; the stream is
\* handed over as MakeCsx does at its end.
DoRowExit ==
    /\ pc = "DoRowLoop"
    /\ drle.i > RowLen(input.parts)
    /\ ~mgr.aborted
    /\ \E m \in {IF drle.cols # <<>> THEN AddCols(mgr, drle.cols) ELSE mgr} :
          mgr' = [m EXCEPT !.csx = [made |-> TRUE,
                                    ctl |-> m.ctl,
                                    ctl_size |-> Len(m.ctl),
                                    row_jumps |-> m.row_jmps,
                                    full_column_indices |-> m.full_column_indices,
                                    values |-> m.values,
                                    id_map |-> AddMappings(m).map]]
    /\ drle' = [drle EXCEPT !.cols = <<>>]
    /\ pc' = "done"
    /\ UNCHANGED <<input, spm, run1>>

NextRow == DoRowEnter \/ DoRowPass \/ DoRowExit

SpecRow == InitRow /\ [][NextRow]_vars

(***************************************************************************)
(* The ignore set of the planner under calls of addIgnore, ignoreAll,      *)
(* removeIgnore and removeAll, followed by a statistics pass.  pc is       *)
(* "ignore" while the set is being changed and "gathered" after            *)
(* genAllStats.                                                            *)
(***************************************************************************)
\* The ignore set after construction.
InitialIgnore == {NONE, BLOCK_ROW_TYPE_NAME(1), BLOCK_COL_TYPE_NAME(1)}

\* The types addIgnore and removeIgnore are called with.
IgnorePool ==
    {NONE, HORIZONTAL, VERTICAL, DIAGONAL, BLOCK_ROW_TYPE_NAME(1),
     BLOCK_ROW_TYPE_NAME(2), BLOCK_COL_TYPE_NAME(1)}

IgnoreInputs == {in \in Inputs : in.coords \in {{<<1, 1>>}, {<<1, 1>>, <<1, 2>>}}}

InitIgnore ==
    /\ input \in IgnoreInputs
    /\ spm = NewPartition(input)
    /\ drle = [NewDrle EXCEPT !.xforms_ignore = InitialIgnore]
    /\ run1 = NoCsx
    /\ pc = "ignore"
    /\ mgr = NewCsxManager(input.cfg.full_column_indices)

AddIgnoreCall ==
    /\ pc = "ignore"
    /\ \E t \in IgnorePool :
          drle' = [drle EXCEPT !.xforms_ignore = addIgnore(@, t)]
    /\ UNCHANGED <<input, spm, mgr, pc, run1>>

IgnoreAllCall ==
    /\ pc = "ignore"
    /\ drle' = [drle EXCEPT !.xforms_ignore = ignoreAll(@)]
    /\ UNCHANGED <<input, spm, mgr, pc, run1>>

RemoveIgnoreCall ==
    /\ pc = "ignore"
    /\ \E t \in IgnorePool :
          drle' = [drle EXCEPT !.xforms_ignore = removeIgnore(@, t)]
    /\ UNCHANGED <<input, spm, mgr, pc, run1>>

RemoveAllCall ==
    /\ pc = "ignore"
    /\ drle' = [drle EXCEPT !.xforms_ignore = removeAll(@)]
    /\ UNCHANGED <<input, spm, mgr, pc, run1>>

\* genAllStats with the ignore set as it is: stats gets an entry for every
\* type that is not ignored.
GenAllStatsCall ==
    /\ pc = "ignore"
    /\ \E g \in {genAllStats(spm, drle, input.cfg)} :
          /\ spm' = g.spm
          /\ drle' = [drle EXCEPT !.stats = g.stats,
                                  !.DeltasToEncode = g.DeltasToEncode]
    /\ pc' = "gathered"
    /\ UNCHANGED <<input, mgr, run1>>

NextIgnore ==
    AddIgnoreCall \/ IgnoreAllCall \/ RemoveIgnoreCall \/ RemoveAllCall
        \/ GenAllStatsCall

SpecIgnore == InitIgnore /\ [][NextIgnore]_vars

(***************************************************************************)
(* doEncode on its own: the columns xs of a stretch of plain elements of   *)
(* one row, in the iteration order of a type that is not a block type, are *)
(* encoded into a row that holds nothing yet.                              *)
(***************************************************************************)
MaxEncodeCol == 8

\* The limits of the runs: max_limit is not below min_limit.
EncodeLimits == {<<2, 3>>, <<2, 4>>, <<3, 3>>, <<3, 4>>}

EncodeDeltas == SUBSET {1, 2, 3}

EncodeInputs ==
    {[xs |-> Ascending(S), type |-> t, deltas_set |-> ds,
      newrow |-> <<>>,
      cfg |-> [min_limit |-> l[1], max_limit |-> l[2], min_perc_num |-> 1,
               min_perc_den |-> 10, full_column_indices |-> FALSE]] :
        S \in (SUBSET (1..MaxEncodeCol)) \ {{}},
        t \in {HORIZONTAL, DIAGONAL},
        ds \in EncodeDeltas,
        l \in EncodeLimits}

InitEncode ==
    /\ input \in EncodeInputs
    /\ spm = [elems |-> input.newrow]
    /\ drle = NewDrle
    /\ run1 = NoCsx
    /\ pc = "doEncode"
    /\ mgr = NewCsxManager(FALSE)

\* The call doEncode(xs, vs, newrow) for row 1, the values being those of
\* the columns.
DoEncodeCall ==
    /\ pc = "doEncode"
    /\ spm' = [elems |->
                  doEncode(input.xs,
                           [i \in 1..Len(input.xs) |-> ValueAt(1, input.xs[i])],
                           input.newrow, 1, input.type, input.deltas_set,
                           input.cfg)]
    /\ pc' = "done"
    /\ UNCHANGED <<input, drle, mgr, run1>>

NextEncode == DoEncodeCall

SpecEncode == InitEncode /\ [][NextEncode]_vars

(***************************************************************************)
(* The block statistics and the block encoder on their own: the            *)
(* coordinates xs of a stretch of plain elements of one row of a           *)
(* partition in a block iteration order are counted by updateStats and     *)
(* then encoded by doEncode.                                               *)
(***************************************************************************)
MaxBlockCol == 12

BlockAligns == {2, 3}

\* max_limit: 6 cuts the long runs into several blocks, 254 cuts none.
BlockLimits == {6, 254}

\* The other dimensions selected: all of them, or 2 alone.
BlockDims == {2..MaxBlockCol, {2}}

BlockInputs ==
    {[xs |-> Ascending(S), type |-> BLOCK_ROW_TYPE_NAME(k), deltas_set |-> ds,
      cfg |-> [min_limit |-> 4, max_limit |-> l, min_perc_num |-> 1,
               min_perc_den |-> 10, full_column_indices |-> FALSE]] :
        S \in (SUBSET (1..MaxBlockCol)) \ {{}},
        k \in BlockAligns,
        ds \in BlockDims,
        l \in BlockLimits}

InitBlock ==
    /\ input \in BlockInputs
    /\ spm = [elems |-> <<>>]
    /\ drle = NewDrle
    /\ run1 = NoCsx
    /\ pc = "updateStats"
    /\ mgr = NewCsxManager(FALSE)

\* The call updateStats(xs, stats) of generateStats for the stretch, on an
\* empty table.
UpdateStatsCall ==
    /\ pc = "updateStats"
    /\ drle' = [drle EXCEPT !.stats =
                   [t \in {input.type} |->
                       updateStats(input.xs, EmptyStats, input.type,
                                   input.cfg.min_limit)]]
    /\ pc' = "doEncode"
    /\ UNCHANGED <<input, spm, mgr, run1>>

\* The call doEncode(xs, vs, newrow) of EncodeRow for the same stretch in
\* row 1, the values being those of the coordinates.
DoEncodeBlockCall ==
    /\ pc = "doEncode"
    /\ spm' = [elems |->
                  doEncode(input.xs,
                           [i \in 1..Len(input.xs) |-> ValueAt(1, input.xs[i])],
                           <<>>, 1, input.type, input.deltas_set, input.cfg)]
    /\ pc' = "done"
    /\ UNCHANGED <<input, drle, mgr, run1>>

NextBlock == UpdateStatsCall \/ DoEncodeBlockCall

SpecBlock == InitBlock /\ [][NextBlock]_vars

(***************************************************************************)
(* The callers of DRLE_Manager::Encode.  doEncode of jit.cc gathers the    *)
(* statistics, chooses a type, transforms the partition to it, calls       *)
(* Encode() and transforms the partition to Horizontal; EncodeAll calls    *)
(* Encode(type) on the partition as genAllStats left it.  Encode() on a    *)
(* manager that has gathered no statistics finds no type to choose.        *)
(***************************************************************************)
InitCallers ==
    /\ input \in Inputs
    /\ spm = NewPartition(input)
    /\ drle = NewDrle
    /\ run1 = NoCsx
    /\ pc = "genAllStats"
    /\ mgr = NewCsxManager(input.cfg.full_column_indices)

\* genAllStats and chooseType, the start of doEncode of jit.cc and of an
\* iteration of EncodeAll; both return if the type is NONE.
GatherStats ==
    /\ pc = "genAllStats"
    /\ \E g \in {genAllStats(spm, drle, input.cfg)} :
          /\ spm' = g.spm
          /\ drle' = [drle EXCEPT !.stats = g.stats,
                                  !.DeltasToEncode = g.DeltasToEncode]
          /\ pc' = IF chooseType(g.stats) = NONE THEN "done" ELSE "chosen"
    /\ UNCHANGED <<input, mgr, run1>>

\* Spm->Transform(type) of doEncode of jit.cc
JitTransform ==
    /\ pc = "chosen"
    /\ spm' = Transform(spm, chooseType(drle.stats))
    /\ pc' = "Encode"
    /\ UNCHANGED <<input, drle, mgr, run1>>

\* DrleMg->Encode() of doEncode of jit.cc
JitEncode ==
    /\ pc = "Encode"
    /\ \E r \in {Encode(spm, drle, NONE, input.cfg)} :
          spm' = r.spm /\ drle' = r.drle
    /\ pc' = "Returned"
    /\ UNCHANGED <<input, mgr, run1>>

\* this->Encode(type) of EncodeAll
EncodeAllEncode ==
    /\ pc = "chosen"
    /\ \E r \in {Encode(spm, drle, chooseType(drle.stats), input.cfg)} :
          spm' = r.spm /\ drle' = r.drle
    /\ pc' = "Returned"
    /\ UNCHANGED <<input, mgr, run1>>

\* Encode() before any statistics were gathered.
EncodeUnprepared ==
    /\ pc = "genAllStats"
    /\ \E r \in {Encode(spm, drle, NONE, input.cfg)} :
          spm' = r.spm /\ drle' = r.drle
    /\ pc' = "Returned"
    /\ UNCHANGED <<input, mgr, run1>>

\* Spm->Transform(HORIZONTAL) of doEncode of jit.cc
JitRestore ==
    /\ pc = "Returned"
    /\ spm' = Transform(spm, HORIZONTAL)
    /\ pc' = "done"
    /\ UNCHANGED <<input, drle, mgr, run1>>

NextCallers ==
    \/ GatherStats
    \/ JitTransform
    \/ JitEncode
    \/ EncodeAllEncode
    \/ EncodeUnprepared
    \/ JitRestore

SpecCallers == InitCallers /\ [][NextCallers]_vars

(***************************************************************************)
(* The varint codec on its own: da_put_ul writes a value into an empty     *)
(* array, and it is read back from offset 0, by the macro uc_get_ul of     *)
(* csx.cc or by ul_get of the decoder.                                     *)
(***************************************************************************)
MaxSmallValue == 300

\* The values written: the small ones, and those around the powers of 128.
VarintValues ==
    (0..MaxSmallValue)
        \cup {16383, 16384, 70000, 2097151, 2097152, 268435455, 268435456,
              2147483647}

\* What the unassigned _uc of uc_get_ul may hold.
UninitValues == {0, 1, 127, 128, 200, 300}

InitVarint ==
    /\ input \in {[val |-> v] : v \in VarintValues}
    /\ spm = [bytes |-> <<>>]
    /\ drle = [by |-> "none"]
    /\ run1 = NoCsx
    /\ pc = "da_put_ul"
    /\ mgr = NewCsxManager(FALSE)

DaPutUlCall ==
    /\ pc = "da_put_ul"
    /\ spm' = [bytes |-> da_put_ul(<<>>, input.val)]
    /\ pc' = "get"
    /\ UNCHANGED <<input, drle, mgr, run1>>

\* uc_get_ul(ptr) with ptr at the first byte written.
UcGetUlCall ==
    /\ pc = "get"
    /\ \E uc1 \in UninitValues :
          drle' = [by |-> "uc_get_ul", got |-> uc_get_ul(spm.bytes, 0, uc1)]
    /\ pc' = "done"
    /\ UNCHANGED <<input, spm, mgr, run1>>

\* ul_get of the decoder at the first byte written.
UlGetCall ==
    /\ pc = "get"
    /\ drle' = [by |-> "ul_get", got |-> ul_get(spm.bytes, 0)]
    /\ pc' = "done"
    /\ UNCHANGED <<input, spm, mgr, run1>>

NextVarint == DaPutUlCall \/ UcGetUlCall \/ UlGetCall

SpecVarint == InitVarint /\ [][NextVarint]_vars

(***************************************************************************)
(* The multithreaded check loop of spmv_loops_mt_numa.c.  Thread 0 is the  *)
(* main thread in _check_mt_loop_numa, threads 1..nr_threads are the       *)
(* workers in do_spmv_thread.  input is [nr_threads, loops]; pc[t] is the  *)
(* position of thread t; drle is the barrier, [count, gen]: the number of  *)
(* threads waiting in it and the number of times it has opened; mgr holds  *)
(* the locals of the threads: i[t] the loop counter, gen[t] the opening    *)
(* count thread t saw when it entered the barrier, done[t] the number of   *)
(* products thread t has finished, created and joined the counters of the  *)
(* two loops of the main thread over tids; spm holds the vectors: x and y  *)
(* "alive" or "destroyed", writing the workers inside spmv_mt_fn, which    *)
(* reads x and writes y, comparing whether vector_compare(y2, y) runs.     *)
(* A product and the comparison take two steps each, so that their         *)
(* overlap is a state.                                                     *)
(***************************************************************************)
MaxThreads == 3
MaxLoops == 2

\* The count the barrier of the bench loop is initialised with: the main
\* thread there is one of the nr_threads that run the product.
BarrierCountBench(nr_threads) == nr_threads

\* The count given to pthread_barrier_init in _check_mt_loop_numa.
BarrierCount(nr_threads) == nr_threads + 1

Workers == 1..input.nr_threads

Exited == pc[0] = "exited"

InitCheckLoop ==
    /\ input \in {[nr_threads |-> n, loops |-> l] :
                     n \in 1..MaxThreads, l \in 0..MaxLoops}
    /\ pc = [t \in 0..input.nr_threads |->
                IF t = 0 THEN "pthread_create" ELSE "idle"]
    /\ drle = [count |-> 0, gen |-> 0]
    /\ mgr = [i |-> [t \in 0..input.nr_threads |-> 0],
              gen |-> [t \in 0..input.nr_threads |-> 0],
              done |-> [t \in 0..input.nr_threads |-> 0],
              created |-> 0, joined |-> 0]
    /\ spm = [x |-> "alive", y |-> "alive", writing |-> {},
              comparing |-> FALSE]
    /\ run1 = NoCsx

\* The loop of pthread_create: one worker is started per turn.
PthreadCreate ==
    /\ pc[0] = "pthread_create"
    /\ IF mgr.created < input.nr_threads
       THEN /\ pc' = [pc EXCEPT ![mgr.created + 1] = "loop"]
            /\ mgr' = [mgr EXCEPT !.created = @ + 1]
       ELSE /\ pc' = [pc EXCEPT ![0] = "loop"]
            /\ mgr' = mgr
    /\ UNCHANGED <<input, spm, drle, run1>>

\* The test i < loops_nr of the loop of thread t.
LoopTest(t) ==
    /\ ~Exited
    /\ pc[t] = "loop"
    /\ pc' = [pc EXCEPT ![t] = IF mgr.i[t] < input.loops THEN "barrier1"
                                ELSE IF t = 0 THEN "destroy_x"
                                ELSE "returned"]
    /\ UNCHANGED <<input, spm, drle, mgr, run1>>

\* pthread_barrier_wait, the entry: the thread is counted, and the barrier
\* opens when it is the last of the count it was initialised with.
BarrierWait(t) ==
    /\ ~Exited
    /\ pc[t] \in {"barrier1", "barrier2"}
    /\ mgr' = [mgr EXCEPT !.gen[t] = drle.gen]
    /\ drle' = IF drle.count + 1 = BarrierCount(input.nr_threads)
               THEN [count |-> 0, gen |-> drle.gen + 1]
               ELSE [drle EXCEPT !.count = @ + 1]
    /\ pc' = [pc EXCEPT ![t] = IF pc[t] = "barrier1" THEN "in1" ELSE "in2"]
    /\ UNCHANGED <<input, spm, run1>>

\* pthread_barrier_wait, the return, once the barrier has opened: a worker
\* goes on to its product or to the next turn of its loop, the main thread
\* to its second wait or to the serial product.
BarrierReturn(t) ==
    /\ ~Exited
    /\ pc[t] \in {"in1", "in2"}
    /\ drle.gen # mgr.gen[t]
    /\ IF pc[t] = "in1"
       THEN /\ pc' = [pc EXCEPT ![t] = IF t = 0 THEN "barrier2" ELSE "spmv"]
            /\ mgr' = mgr
       ELSE IF t = 0
       THEN /\ pc' = [pc EXCEPT ![t] = "serial"]
            /\ mgr' = mgr
       ELSE /\ pc' = [pc EXCEPT ![t] = "loop"]
            /\ mgr' = [mgr EXCEPT !.i[t] = @ + 1]
    /\ UNCHANGED <<input, spm, drle, run1>>

\* spmv_mt_fn(spm, data, y) of worker t starts.
SpmvBegin(t) ==
    /\ ~Exited
    /\ t # 0
    /\ pc[t] = "spmv"
    /\ spm' = [spm EXCEPT !.writing = @ \cup {t}]
    /\ pc' = [pc EXCEPT ![t] = "writing"]
    /\ UNCHANGED <<input, drle, mgr, run1>>

\* spmv_mt_fn of worker t returns.
SpmvEnd(t) ==
    /\ ~Exited
    /\ pc[t] = "writing"
    /\ spm' = [spm EXCEPT !.writing = @ \ {t}]
    /\ mgr' = [mgr EXCEPT !.done[t] = @ + 1]
    /\ pc' = [pc EXCEPT ![t] = "barrier2"]
    /\ UNCHANGED <<input, drle, run1>>

\* fn(spm_serial, x, y2) of the main thread.
SerialSpmv ==
    /\ pc[0] = "serial"
    /\ pc' = [pc EXCEPT ![0] = "compare"]
    /\ UNCHANGED <<input, spm, drle, mgr, run1>>

\* vector_compare(y2, y) starts.
CompareBegin ==
    /\ pc[0] = "compare"
    /\ spm' = [spm EXCEPT !.comparing = TRUE]
    /\ pc' = [pc EXCEPT ![0] = "comparing"]
    /\ UNCHANGED <<input, drle, mgr, run1>>

\* vector_compare returns: exit(1) if the vectors differ, else the next
\* turn of the loop.
CompareEnd ==
    /\ pc[0] = "comparing"
    /\ spm' = [spm EXCEPT !.comparing = FALSE]
    /\ \E equal \in BOOLEAN :
          IF equal
          THEN /\ pc' = [pc EXCEPT ![0] = "loop"]
               /\ mgr' = [mgr EXCEPT !.i[0] = @ + 1]
          ELSE /\ pc' = [pc EXCEPT ![0] = "exited"]
               /\ mgr' = mgr
    /\ UNCHANGED <<input, drle, run1>>

\* The loop that destroys the x vectors.
DestroyX ==
    /\ pc[0] = "destroy_x"
    /\ spm' = [spm EXCEPT !.x = "destroyed"]
    /\ pc' = [pc EXCEPT ![0] = "destroy_y"]
    /\ UNCHANGED <<input, drle, mgr, run1>>

\* vector_destroy(y) and vector_destroy(y2).
DestroyY ==
    /\ pc[0] = "destroy_y"
    /\ spm' = [spm EXCEPT !.y = "destroyed"]
    /\ pc' = [pc EXCEPT ![0] = "pthread_join"]
    /\ UNCHANGED <<input, drle, mgr, run1>>

\* The loop of pthread_join: a join returns once its worker has returned.
PthreadJoin ==
    /\ pc[0] = "pthread_join"
    /\ IF mgr.joined < input.nr_threads
       THEN /\ pc[mgr.joined + 1] = "returned"
            /\ mgr' = [mgr EXCEPT !.joined = @ + 1]
            /\ pc' = pc
       ELSE /\ pc' = [pc EXCEPT ![0] = "done"]
            /\ mgr' = mgr
    /\ UNCHANGED <<input, spm, drle, run1>>

\* A step of the main thread.
MainStep ==
    \/ PthreadCreate
    \/ LoopTest(0)
    \/ BarrierWait(0)
    \/ BarrierReturn(0)
    \/ SerialSpmv
    \/ CompareBegin
    \/ CompareEnd
    \/ DestroyX
    \/ DestroyY
    \/ PthreadJoin

\* A step of worker t.
WorkerStep(t) ==
    /\ t \in Workers
    /\ \/ LoopTest(t)
       \/ BarrierWait(t)
       \/ BarrierReturn(t)
       \/ SpmvBegin(t)
       \/ SpmvEnd(t)

NextCheckLoop == MainStep \/ \E t \in 1..MaxThreads : WorkerStep(t)

SpecCheckLoop == InitCheckLoop /\ [][NextCheckLoop]_vars

\* Every thread that can take a step is scheduled in the end.
FairCheckLoop ==
    /\ SpecCheckLoop
    /\ WF_vars(MainStep)
    /\ \A t \in 1..MaxThreads : WF_vars(WorkerStep(t))

(***************************************************************************)
(* The claims.  Decoded is the forward sweep over the finished ctl stream. *)
(***************************************************************************)
Decoded == Decode(mgr.csx)

PatternUnits(d) == {i \in 1..Len(d.units) : ~IsDeltaId(d.units[i].id)}
DeltaUnits(d) == {i \in 1..Len(d.units) : IsDeltaId(d.units[i].id)}

\* C1 (round trip): once MakeCsx has finished, the forward sweep over ctl
\* ends exactly at the end of the stream and yields each nonzero of the
\* input once, with its row, column and value, and nothing else.
RoundTrip ==
    pc = "done" =>
        LET d == Decoded
        IN /\ d.ok
           /\ SeqToSet(d.out) = InputTriples
           /\ Len(d.out) = Cardinality(input.coords)

\* A finished matrix with a row jump, a pattern unit and a delta unit of
\* more than one element.
RoundTripWitness ==
    /\ pc = "done"
    /\ mgr.csx.row_jumps
    /\ LET d == Decoded
       IN /\ PatternUnits(d) # {}
          /\ \E i \in DeltaUnits(d) : d.units[i].size > 1
          /\ \E i \in 1..Len(d.units) : d.units[i].hasrowjmp

\* C2 (size conservation): MakeCsx reaches its end with values_idx_ equal
\* to the number of nonzeros, so its assertion holds; in the finished
\* matrix the size bytes of the units add up to the number of nonzeros,
\* every entry of the values array has been written, and each unit starts
\* in the values array where the sizes of the units before it end.
SizeConservation ==
    /\ (pc = "MakeCsxRows" /\ mgr.curr_row = spm.rowptr_rows
            => mgr.values_idx = spm.nnz)
    /\ pc = "done" =>
        LET d == Decoded
            sizes == [i \in 1..Len(d.units) |-> d.units[i].size]
        IN /\ SumSeq(sizes) = Cardinality(input.coords)
           /\ mgr.csx.nnz = Cardinality(input.coords)
           /\ Len(mgr.csx.values) = Cardinality(input.coords)
           /\ \A i \in 1..Len(mgr.csx.values) : mgr.csx.values[i] # Uninit
           /\ \A i \in 1..Len(d.units) :
                 d.units[i].vi = SumSeq(SubSeq(sizes, 1, i - 1))

\* A finished matrix of at least three units, one of them a pattern.
SizeConservationWitness ==
    /\ pc = "done"
    /\ LET d == Decoded
       IN Len(d.units) >= 3 /\ PatternUnits(d) # {}
          /\ \E i \in 1..Len(d.units) : d.units[i].size >= 3

\* C3 (value ordering): the i-th nonzero the forward sweep consumes is the
\* input's value at the position decoded for it, and it is values[i]; the
\* values array is the values of the partition's elements in their order,
\* the values of a pattern together and in the order of its run.
ValueOrdering ==
    pc = "done" =>
        LET d == Decoded
        IN /\ Len(d.out) = Len(mgr.csx.values)
           /\ \A i \in 1..Len(d.out) :
                 mgr.csx.values[i] = ValueAt(d.out[i][1], d.out[i][2])
           /\ mgr.csx.values =
                 FlattenSeq([i \in 1..Len(spm.elems) |-> spm.elems[i].vals])

\* A finished matrix in which a pattern that is not horizontal is followed
\* by a later unit, so that the values of the pattern lie between others.
ValueOrderingWitness ==
    /\ pc = "done"
    /\ LET d == Decoded
       IN \E i \in PatternUnits(d) :
             /\ d.units[i].id \div PID_OFFSET # HORIZONTAL
             /\ i > 1 /\ i < Len(d.units)

\* The span the text of C10 gives a pattern of the given kind.
SpanOfPattern(type, delta, size) ==
    IF type \in {VERTICAL, DIAGONAL, REV_DIAGONAL} THEN (size - 1) * delta
    ELSE IF IsBlockRowType(type) THEN isBlockType(type) - 1
    ELSE IF IsBlockColType(type) THEN (size \div isBlockType(type)) - 1
    ELSE 0

SetMax(S) == IF S = {} THEN 0 ELSE SetMaxOf(S)

UnitType(u) == u.id \div PID_OFFSET
UnitDelta(u) == u.id % PID_OFFSET

\* C10 (span upper bound): in the finished matrix the span of every row is
\* the largest span of the patterns anchored in it ((size-1)*delta for
\* Vertical, Diagonal and AntiDiagonal, k-1 for BlockRow-k, size/k-1 for
\* BlockCol-k, 0 for Horizontal and for rows without patterns), and every
\* nonzero a pattern anchored in row r covers lies in a row <= r + span.
SpanUpperBound ==
    pc = "done" =>
        LET d == Decoded
            info == mgr.csx.rows_info
            anchored(r) == {i \in PatternUnits(d) : d.units[i].row = r}
        IN \A r \in 0..(mgr.csx.nrows - 1) :
              /\ info[r + 1].span =
                    SetMax({SpanOfPattern(UnitType(d.units[i]),
                                          UnitDelta(d.units[i]),
                                          d.units[i].size) : i \in anchored(r)})
              /\ \A i \in anchored(r) :
                    \A k \in 0..(d.units[i].size - 1) :
                        PatternCoord(UnitType(d.units[i]), UnitDelta(d.units[i]),
                                     d.units[i].size, d.units[i].row,
                                     d.units[i].col, k)[1]
                            <= r + info[r + 1].span

\* A finished matrix with a row that anchors two patterns of different
\* spans, the larger one first.
SpanUpperBoundWitness ==
    /\ pc = "done"
    /\ LET d == Decoded
           sp(i) == SpanOfPattern(UnitType(d.units[i]), UnitDelta(d.units[i]),
                                  d.units[i].size)
       IN \E i, j \in PatternUnits(d) :
             /\ i < j
             /\ d.units[i].row = d.units[j].row
             /\ sp(i) > sp(j)
             /\ sp(j) > 0

\* The types EncodeAll chose before its n-th encoding iteration.
ChosenBefore(n) == {drle.chosen[m].type : m \in 1..(n - 1)}

\* The types of the best score among those iteration n had statistics for.
BestTypes(n) ==
    LET sc == drle.chosen[n].scores
    IN {t \in DOMAIN sc : \A u \in DOMAIN sc : sc[u] <= sc[t]}

PlannerTermination ==
    /\ <>(pc # "EncodeAll")
    /\ [](/\ Len(drle.chosen) <= Cardinality(CandidateTypes)
          /\ \A n \in 1..Len(drle.chosen) :
                /\ drle.chosen[n].type \in CandidateTypes \ ChosenBefore(n)
                /\ drle.chosen[n].type \in drle.xforms_ignore
                /\ DOMAIN drle.chosen[n].scores = CandidateTypes \ ChosenBefore(n))

\* The loop has ended after three encoding iterations.
PlannerTerminationWitness ==
    /\ pc = "MakeCsx"
    /\ Len(drle.chosen) >= 3

\* C6 as stated (planner monotonicity): the score of the type EncodeAll
\* chooses in an iteration is never greater than the score of the type it
\* chose in the iteration before.
PlannerMonotonicity ==
    \A n \in 1..(Len(drle.chosen) - 1) :
        drle.chosen[n + 1].score <= drle.chosen[n].score

\* C6 as the code has it: in every iteration the chosen score is positive
\* and no type with statistics in that iteration has a greater score; from
\* one iteration to the next the chosen score may fall, stay or rise.
PlannerBestScore ==
    \A n \in 1..Len(drle.chosen) :
        /\ drle.chosen[n].score >= 1
        /\ drle.chosen[n].score = drle.chosen[n].scores[drle.chosen[n].type]
        /\ \A t \in DOMAIN drle.chosen[n].scores :
              drle.chosen[n].scores[t] <= drle.chosen[n].score

\* Two iterations in a row, the second with the greater score, and an
\* iteration in which a type that was not chosen had a positive score.
PlannerBestScoreWitness ==
    /\ \E n \in 1..(Len(drle.chosen) - 1) :
          drle.chosen[n + 1].score > drle.chosen[n].score
    /\ \E n \in 1..Len(drle.chosen) :
          \E t \in DOMAIN drle.chosen[n].scores :
              /\ t # drle.chosen[n].type
              /\ drle.chosen[n].scores[t] >= 1

\* The ids GetFlag was asked about before the first call with the id of
\* its i-th call.
IdsBeforeFirst(log, i) ==
    LET firstpos == SetMinOf({j \in 1..Len(log) : log[j].id = log[i].id})
    IN {log[j].id : j \in 1..(firstpos - 1)}

\* C7 (flag monotonicity): every call of GetFlag returns the number of
\* distinct pattern ids that appeared before the first appearance of its
\* id, so flags go 0, 1, 2, ... in the order of first appearance, an id
\* keeps its flag and no two ids share one; after AddMappings, with n
\* distinct ids, id_map[f] is the id of flag f for every f < n and
\* id_map[n] is -1.
FlagMonotonicity ==
    LET log == mgr.flaglog
        ids == {log[i].id : i \in 1..Len(log)}
        n == Cardinality(ids)
    IN /\ \A i \in 1..Len(log) :
             log[i].flag = Cardinality(IdsBeforeFirst(log, i))
       /\ \A i, k \in 1..Len(log) :
             log[i].flag = log[k].flag => log[i].id = log[k].id
       /\ (pc = "done" =>
             /\ \A i \in 1..Len(log) :
                   /\ log[i].flag \in DOMAIN mgr.csx.id_map
                   /\ mgr.csx.id_map[log[i].flag] = log[i].id
             /\ n \in DOMAIN mgr.csx.id_map
             /\ mgr.csx.id_map[n] = -1)

\* C8 (pattern limit): a manager that has given flags to more than
\* CTL_PATTERNS_MAX distinct pattern ids has failed; so after AddMappings
\* there are at most CTL_PATTERNS_MAX distinct flags, every flag fits the
\* low six bits, and the -1 is at an index <= CTL_PATTERNS_MAX, inside the
\* table of CTL_PATTERNS_MAX + 1 entries.
PatternLimit ==
    /\ (Cardinality(SeenIds(mgr)) > CTL_PATTERNS_MAX => mgr.aborted)
    /\ (pc = "done" =>
          /\ Cardinality(SeenIds(mgr)) <= CTL_PATTERNS_MAX
          /\ \A id \in SeenIds(mgr) : mgr.patterns[id].flag <= CTL_PATTERN_MASK
          /\ Cardinality(SeenIds(mgr)) <= CTL_PATTERNS_MAX
          /\ Cardinality(SeenIds(mgr)) < IdMapSize
          /\ mgr.csx.id_map_oob = {})

\* Whether an unsigned value fits a width: for the eight bytes of a
\* size_t, and for a column difference, which is below 2^31.
FitsBytes(val, w) == \A i \in (w + 1)..Len(val) : val[i] = 0

FitsInt(v, w) == w >= 4 \/ v < 256 ^ w

DeltaWidths == {1, 2, 4, 8}

\* C9 (delta width minimality): GetDeltaSize(v) is the smallest of the
\* widths 1, 2, 4 and 8 bytes that holds v; the delta unit AddCols emits
\* has the width GetDeltaSize gives for the greatest of its deltas, the
\* column jump in front not counted, and width 1 if it has one element;
\* every delta fits that width, is read back from ctl as it was, and the
\* greatest one fits no smaller width.
DeltaWidthMinimality ==
    /\ (pc = "done" /\ input.kind = "val" =>
          /\ drle.delta_size \in DeltaWidths
          /\ FitsBytes(input.val, drle.delta_size)
          /\ \A w \in DeltaWidths :
                w < drle.delta_size => ~FitsBytes(input.val, w))
    /\ (pc = "done" /\ input.kind = "cols" =>
          LET cols == input.cols
              ds == [i \in 1..(Len(cols) - 1) |-> cols[i + 1] - cols[i]]
              max == MaxSeq(ds)
              d == Decode(mgr.csx)
              u == d.units[1]
          IN /\ d.ok /\ Len(d.units) = 1
             /\ IsDeltaId(u.id) /\ u.size = Len(cols)
             /\ u.width \in DeltaWidths
             /\ u.width = GetDeltaSize(SizeT(max))
             /\ (Len(cols) = 1 => u.width = 1)
             /\ u.deltas = ds
             /\ \A i \in 1..Len(ds) : FitsInt(ds[i], u.width)
             /\ \A w \in DeltaWidths : w < u.width => ~FitsInt(max, w))

\* AddCols has emitted a unit of three columns whose deltas need two bytes
\* while the column jump in front would need four.
DeltaWidthMinimalityWitness ==
    /\ pc = "done"
    /\ input.kind = "cols"
    /\ Len(input.cols) = 3
    /\ input.cols[1] - 1 >= 65536
    /\ Decode(mgr.csx).units[1].width = 2

\* max_limit aligned down to a multiple of 2k, as doEncodeBlock does.
AlignedLimit(k) == (input.cfg.max_limit \div (2 * k)) * (2 * k)

\* C11 (pattern size invariants): every pattern element of the partition,
\* at any time, has a size of at least 2 and as many values as its size;
\* a block pattern of alignment k has a size that is a multiple of k, at
\* least 2k and at most max_limit aligned down to 2k, and its other
\* dimension is size / k.
PatternSizes ==
    \A i \in 1..Len(spm.elems) :
        LET e == spm.elems[i]
            k == isBlockType(e.pattern)
        IN IsPattern(e) =>
              /\ e.size >= 2
              /\ Len(e.vals) = e.size
              /\ (k # 0 =>
                    /\ e.size % k = 0
                    /\ e.size >= 2 * k
                    /\ e.size <= AlignedLimit(k)
                    /\ e.delta * k = e.size)

\* A run of blocks longer than the aligned max_limit has been split: two
\* blocks of the full aligned size of one type in one row, and elements
\* past the last block left plain.
PatternSizesWitness ==
    /\ \E i, j \in 1..Len(spm.elems) :
          /\ i < j
          /\ isBlockType(spm.elems[i].pattern) # 0
          /\ spm.elems[j].pattern = spm.elems[i].pattern
          /\ spm.elems[j].y = spm.elems[i].y
          /\ spm.elems[i].size = AlignedLimit(isBlockType(spm.elems[i].pattern))
          /\ spm.elems[j].size = spm.elems[i].size
    /\ \E i \in 1..Len(spm.elems) : ~IsPattern(spm.elems[i])

\* The sizes of the delta units n plain elements in a row are split into.
PlainUnitSizes(n) ==
    [i \in 1..((n + CTL_SIZE_MAX - 1) \div CTL_SIZE_MAX) |->
        IF i * CTL_SIZE_MAX <= n THEN CTL_SIZE_MAX ELSE n % CTL_SIZE_MAX]

FirstOfRow(d, i) == i = 1 \/ d.units[i - 1].row # d.units[i].row

\* There is a unit, so a non-empty row, before unit i.
HasEarlierRow(d, i) == i > 1

\* The number of empty rows between the row of unit i and the non-empty
\* row before it, or above it when it is the first non-empty row.
EmptyRowsBefore(d, i) ==
    IF i = 1 THEN d.units[1].row ELSE d.units[i].row - d.units[i - 1].row - 1

\* The bytes after the size byte of unit i are the varint of v.
RowJmpVarint(c, u, v) ==
    LET bytes == da_put_ul(<<>>, v)
    IN /\ u.pos0 + 2 + Len(bytes) <= Len(c.ctl)
       /\ SubSeq(c.ctl, u.pos0 + 3, u.pos0 + 2 + Len(bytes)) = bytes

\* The column field of unit u starts right after the size byte (no row
\* jump) or after n bytes of row jump.
ColumnAfter(c, u, n) ==
    u.colpos = IF c.full_column_indices
               THEN AlignPos(u.pos0 + 2 + n, IndexTypeSize)
               ELSE u.pos0 + 2 + n

\* The units of the stream are those of the non-empty rows of the encoded
\* partition, in row order.
UnitsFollowRows(d) ==
    /\ {d.units[i].row + 1 : i \in 1..Len(d.units)}
          = {spm.elems[j].y : j \in 1..Len(spm.elems)}
    /\ \A i \in 2..Len(d.units) : d.units[i - 1].row <= d.units[i].row

\* MakeCsx has just passed a non-empty row.
PassedNonEmptyRow ==
    /\ pc = "MakeCsxRows"
    /\ mgr.curr_row > 0
    /\ RowOf(spm, mgr.curr_row) # <<>>

\* The parts of C13 that do not depend on where the empty rows lie: the
\* first unit of a row that follows e >= 1 empty rows after a non-empty
\* row has NR and RJMP and the varint e + 1; the varint is there iff RJMP
\* is set; empty_rows_ is 0 after a non-empty row.
RowJumpCommon ==
    /\ PassedNonEmptyRow => mgr.empty_rows = 0
    /\ pc = "done" =>
          LET d == Decoded
              c == mgr.csx
          IN /\ d.ok
             /\ UnitsFollowRows(d)
             /\ \A i \in 1..Len(d.units) :
                   LET u == d.units[i]
                       e == EmptyRowsBefore(d, i)
                   IN /\ (HasEarlierRow(d, i) /\ e >= 1) =>
                            /\ u.nr /\ u.rjmp
                            /\ RowJmpVarint(c, u, e + 1)
                      /\ u.rjmp => /\ c.row_jumps
                                   /\ ColumnAfter(c, u, Len(da_put_ul(<<>>, e + 1)))
                      /\ ~u.rjmp => ColumnAfter(c, u, 0)

\* C13 as stated: RJMP is set only on the first unit of a row that follows
\* e >= 1 empty rows after an earlier non-empty row.
RowJumpOnlyAfterEarlierRow ==
    /\ RowJumpCommon
    /\ pc = "done" =>
          LET d == Decoded
          IN \A i \in 1..Len(d.units) :
                d.units[i].rjmp =>
                    /\ FirstOfRow(d, i)
                    /\ HasEarlierRow(d, i)
                    /\ EmptyRowsBefore(d, i) >= 1

\* C13 (row-jump encoding): the first unit of a non-empty row that follows
\* e >= 1 empty rows after an earlier non-empty row has NR and RJMP set
\* and carries the varint e + 1; the first unit of the first non-empty row
\* has RJMP set when e >= 2 empty rows lie above it and then carries the
\* varint e (the first empty row only sets new_row_); no other unit has
\* RJMP set; the varint is in the stream iff RJMP is set; empty_rows_ is 0
\* after each non-empty row.
RowJumpEncoding ==
    /\ RowJumpCommon
    /\ pc = "done" =>
          LET d == Decoded
              c == mgr.csx
          IN \A i \in 1..Len(d.units) :
                LET u == d.units[i]
                    e == EmptyRowsBefore(d, i)
                IN /\ u.rjmp <=> /\ FirstOfRow(d, i)
                                 /\ \/ HasEarlierRow(d, i) /\ e >= 1
                                    \/ ~HasEarlierRow(d, i) /\ e >= 2
                   /\ (u.rjmp /\ ~HasEarlierRow(d, i)) =>
                          u.nr /\ RowJmpVarint(c, u, e)

\* A finished matrix of four rows whose rows 1 and 4 are the non-empty
\* ones: the first unit of row 4 has NR and RJMP and the varint 3.
RowJumpEncodingWitness ==
    /\ pc = "done"
    /\ input.nr_rows = 4
    /\ LET d == Decoded
       IN /\ Len(d.units) >= 2
          /\ d.units[1].row = 0
          /\ d.units[2].row = 3
          /\ d.units[2].nr /\ d.units[2].rjmp
          /\ RowJmpVarint(mgr.csx, d.units[2], 3)

\* C14 (new-row marking): in the finished stream, whose units are those of
\* the non-empty rows in row order and decode to the input, NR is set on
\* the first unit of every non-empty row but not on the first unit of row
\* 0, on no second or later unit of a row, and RJMP is never set without
\* NR.
NewRowMarking ==
    pc = "done" =>
        LET d == Decoded
        IN /\ d.ok
           /\ SeqToSet(d.out) = InputTriples
           /\ UnitsFollowRows(d)
           /\ \A i \in 1..Len(d.units) :
                 /\ d.units[i].nr <=>
                        (FirstOfRow(d, i) /\ ~(i = 1 /\ d.units[i].row = 0))
                 /\ d.units[i].rjmp => d.units[i].nr

\* A finished matrix whose row 0 is non-empty and has two units, neither
\* with NR, followed by a row whose first unit has NR and whose second has
\* not.
NewRowMarkingWitness ==
    /\ pc = "done"
    /\ LET d == Decoded
       IN /\ Len(d.units) >= 4
          /\ d.units[1].row = 0 /\ ~d.units[1].nr
          /\ d.units[2].row = 0 /\ ~d.units[2].nr
          /\ \E i \in 3..(Len(d.units) - 1) :
                /\ d.units[i].nr
                /\ d.units[i + 1].row = d.units[i].row
                /\ ~d.units[i + 1].nr

\* The rows of the encoded partition without elements (rows from 1).
EmptyRows == {i \in 1..spm.nr_rows : RowOf(spm, i) = <<>>}

\* C15 as stated: an empty row has span 0 and repeats both offsets of the
\* row before it (row 0 has no row before it and is left out).
EmptyRowRepeatsOffsets ==
    pc = "done" =>
        LET ri == mgr.csx.rows_info
        IN \A i \in EmptyRows :
              /\ ri[i].span = 0
              /\ i > 1 => /\ ri[i].rowptr = ri[i - 1].rowptr
                          /\ ri[i].valptr = ri[i - 1].valptr

\* C15 (per-row metadata of empty rows): in the finished matrix every
\* empty row, whether before the last row pointer or after it, has span 0,
\* a ctl offset equal to that of the row before it (0 for row 0), and a
\* value offset of 0.
EmptyRowInfo ==
    pc = "done" =>
        LET ri == mgr.csx.rows_info
        IN /\ Len(ri) = spm.nr_rows
           /\ \A i \in EmptyRows :
                 /\ ri[i].span = 0
                 /\ ri[i].rowptr = IF i > 1 THEN ri[i - 1].rowptr ELSE 0
                 /\ ri[i].valptr = 0

\* A finished matrix with an empty row after the last row pointer whose
\* row before it starts past the beginning of ctl and of the values.
EmptyRowInfoWitness ==
    /\ pc = "done"
    /\ LET ri == mgr.csx.rows_info
       IN \E i \in EmptyRows :
             /\ i > spm.rowptr_rows
             /\ ri[i - 1].rowptr > 0
             /\ ri[i - 1].valptr > 0
             /\ ri[i].rowptr = ri[i - 1].rowptr
             /\ ri[i].valptr = 0

\* The input of scenario A: a matrix of one row with nonzeros at columns
\* 1..n and nothing else, min_limit <= n <= max_limit.
DenseRowLength == Cardinality(input.coords)

IsDenseRow ==
    /\ input.nr_rows = 1
    /\ input.coords = {<<1, c>> : c \in 1..DenseRowLength}
    /\ input.cfg.min_limit <= DenseRowLength
    /\ DenseRowLength <= input.cfg.max_limit

\* What scenario A says about everything but the column jump: one pattern
\* element and one pattern unit of type Horizontal, delta 1, size n, flag
\* 0 without NR, the values v1..vn, id_map[0] the id of (Horizontal, 1).
DenseRowCommon ==
    LET n == DenseRowLength
        c == mgr.csx
        d == Decoded
    IN /\ spm.elems = <<PatElem(1, 1, HORIZONTAL, 1, n,
                                [j \in 1..n |-> ValueAt(1, j)])>>
       /\ d.ok
       /\ Len(d.units) = 1
       /\ d.units[1].id = PID_OFFSET * HORIZONTAL + 1
       /\ d.units[1].size = n
       /\ c.ctl[1] = 0
       /\ c.ctl[2] = n
       /\ c.values = [j \in 1..n |-> ValueAt(1, j)]
       /\ c.id_map[0] = PID_OFFSET * HORIZONTAL + 1
       /\ c.id_map[1] = -1

\* C16 as stated: the ctl stream of scenario A is the flag byte 0, the
\* size n and the varint of 1.
ScenarioAJumpOne ==
    (pc = "done" /\ IsDenseRow /\ ~input.cfg.full_column_indices) =>
        /\ DenseRowCommon
        /\ mgr.csx.ctl = da_put_ul(<<0, DenseRowLength>>, 1)

\* C16 (scenario A): a one-row matrix with nonzeros at columns 1..n,
\* min_limit <= n <= max_limit, is encoded as one pattern unit of type
\* Horizontal, delta 1, size n; ctl is the flag byte 0 (no NR), the size n
\* and the column jump 0 (the starting column minus 1), as a varint or,
\* with full column indices, as an aligned integer of IndexTypeSize bytes;
\* the values are v1..vn and id_map[0] is the id of (Horizontal, 1).
ScenarioA ==
    (pc = "done" /\ IsDenseRow) =>
        /\ DenseRowCommon
        /\ mgr.csx.ctl =
              IF input.cfg.full_column_indices
              THEN AppendFixedInt(<<0, DenseRowLength>>, 0, IndexTypeSize)
              ELSE da_put_ul(<<0, DenseRowLength>>, 0)

\* The finished 1x10 matrix of the scenario under the default limits.
ScenarioAWitness ==
    /\ pc = "done"
    /\ IsDenseRow
    /\ DenseRowLength = 10
    /\ input.cfg = DefaultConfig
    /\ mgr.csx.ctl = <<0, 10, 0>>

\* The columns of row y of partition q, in order.
RowXs(q, y) == [i \in 1..Len(RowOf(q, y)) |-> RowOf(q, y)[i].x]

\* The runs (val, freq) of the delta run-length encoding of the rows of q.
RunsOf(q) ==
    UNION {SeqToSet(RLEncode(DeltaEncodeSeq(RowXs(q, y)))) :
              y \in {q.elems[i].y : i \in 1..Len(q.elems)}}

\* No run of the input reaches min_limit in the iteration order of any
\* candidate type.
NoRunReachesMinLimit ==
    \A t \in CandidateTypes :
        \A r \in RunsOf(Transform(NewPartition(input), t)) :
            r.freq < input.cfg.min_limit

\* In no block order do the statistics of the input credit a block (they
\* do not look at min_limit).
NoBlockCredited ==
    \A t \in CandidateTypes :
        isBlockType(t) # 0 =>
            generateStats(Transform(NewPartition(input), t),
                          input.cfg.min_limit) = EmptyStats

\* The planner has stopped after its first statistics pass without
\* encoding, and the stream is made of delta units only.
PlannerStopped ==
    /\ drle.chosen = <<>>
    /\ pc = "EncodeAll" => drle.stats = EmptyStatsMap
    /\ pc # "EncodeAll" =>
          /\ DOMAIN drle.stats = CandidateTypes
          /\ \A t \in AllTypes : getTypeScore(drle.stats, t) = 0
          /\ chooseType(drle.stats) = NONE
          /\ spm.elems = NewPartition(input).elems
          /\ \A i \in 1..Len(spm.elems) : ~IsPattern(spm.elems[i])
    /\ pc = "done" =>
          LET d == Decoded
          IN /\ d.ok
             /\ \A i \in 1..Len(d.units) : IsDeltaId(d.units[i].id)
             /\ DOMAIN mgr.patterns \subseteq {8, 16, 32, 64}

AlwaysIgnored ==
    /\ InitialIgnore \subseteq drle.xforms_ignore
    /\ pc = "gathered" => DOMAIN drle.stats \cap InitialIgnore = {}

\* The elements of s that are patterns of a type other than t.
OtherPatterns(s, t) == SelectSeq(s, LAMBDA e : IsPattern(e) /\ e.pattern # t)

\* The step from (p, d) to (p1, d1) is an Encode of the type t that d1
\* has recorded last.
LastChosen(d1) == d1.chosen[Len(d1.chosen)].type

\* Row by row in the iteration order of t, the encoded partition p1
\* stands for the partition p: the rows are the same, decoding a row of p1
\* gives the row of p element by element (so each plain element of p is
\* covered once, by a plain element at its coordinate or by a new pattern
\* that generates it with its value), and the patterns p had are in p1
\* unchanged and in the same order.
LosslessRows(p, p1, t) ==
    LET q == Transform(p, t)
        q1 == Transform(p1, t)
    IN /\ RowIds(q1.elems) = RowIds(q.elems)
       /\ \A j \in 1..Len(RowIds(q.elems)) :
             LET row == RowOf(q, RowIds(q.elems)[j])
                 newrow == RowOf(q1, RowIds(q.elems)[j])
             IN /\ DecodeRow(newrow, t) = row
                /\ OtherPatterns(newrow, t) = SelectSeq(row, IsPattern)
                /\ \A i \in 1..Len(row) : IsPattern(row[i]) => row[i].pattern # t
       /\ DecodePartition(p1, t).elems = p.elems

\* C19 (Encode is lossless per row): every Encode(type) of the planner
\* takes the partition to one that stands for it row by row, and
\* Decode(type) after it restores the elements.
EncodeLossless ==
    [][(pc = "EncodeAll" /\ Len(drle'.chosen) > Len(drle.chosen))
          => LosslessRows(spm, spm', LastChosen(drle'))]_vars

\* A partition after its second Encode: in the iteration order of the
\* type encoded last, some row holds a pattern of that type next to a
\* pattern of the type encoded before and a plain element.
EncodeLosslessWitness ==
    /\ Len(drle.chosen) >= 2
    /\ LET t == LastChosen(drle)
           q == Transform(spm, t)
       IN \E j \in 1..Len(RowIds(q.elems)) :
             LET row == RowOf(q, RowIds(q.elems)[j])
             IN /\ \E i \in 1..Len(row) : IsPattern(row[i]) /\ row[i].pattern = t
                /\ OtherPatterns(row, t) # <<>>
                /\ \E i \in 1..Len(row) : ~IsPattern(row[i])

\* The sizes of the patterns a run of freq elements is cut into: chunks of
\* max_limit, and what is left if it reaches min_limit.
ChunkSizes(freq, cfg) ==
    IF freq < cfg.min_limit THEN <<>>
    ELSE [k \in 1..(freq \div cfg.max_limit) |-> cfg.max_limit]
            \o (IF freq % cfg.max_limit >= cfg.min_limit
                THEN <<freq % cfg.max_limit>> ELSE <<>>)

\* What C20 says a run (val, freq) becomes, the coordinate before it being
\* c0 and its values vs: patterns of delta val if val is selected, each
\* anchored one step val after the last covered coordinate, then the
\* elements left over, one per step of val.
ExpectedRun(c0, val, freq, vs, y, type, deltas_set, cfg) ==
    LET sizes == IF val \in deltas_set THEN ChunkSizes(freq, cfg) ELSE <<>>
        covered == SumSeq(sizes)
        before(k) == (k - 1) * cfg.max_limit
    IN [k \in 1..Len(sizes) |->
           PatElem(y, c0 + before(k) * val + val, type, val, sizes[k],
                   SubSeq(vs, before(k) + 1, before(k) + sizes[k]))]
         \o [i \in 1..(freq - covered) |->
                PlainElem(y, c0 + (covered + i) * val, vs[covered + i])]

\* The runs of xs one after the other.
ExpectedRuns(xs, vs, y, type, deltas_set, cfg) ==
    LET rles == RLEncode(DeltaEncodeSeq(xs))
        freqs == [j \in 1..Len(rles) |-> rles[j].freq]
        start(j) == SumRange(freqs, 1, j - 1)
    IN FlattenSeq([j \in 1..Len(rles) |->
           ExpectedRun(IF start(j) = 0 THEN 0 ELSE xs[start(j)],
                       rles[j].val, rles[j].freq,
                       SubSeq(vs, start(j) + 1, start(j) + rles[j].freq),
                       y, type, deltas_set, cfg)])

\* C20 (run chunking in doEncode): for a type that is not a block type,
\* a run (val, freq) becomes patterns only if val is in the set of deltas
\* to encode and freq >= min_limit; each pattern has delta val and size
\* min(max_limit, what is left of the run), so min_limit <= size <=
\* max_limit; its anchor is one step val after the last covered
\* coordinate; what is left over, fewer than min_limit elements, or the
\* whole run if val is not selected, is emitted as plain elements one per
\* step of val.
RunChunking ==
    pc = "done" /\ "xs" \in DOMAIN input =>
        LET xs == input.xs
            vs == [i \in 1..Len(xs) |-> ValueAt(1, xs[i])]
            new == SubSeq(spm.elems, Len(input.newrow) + 1, Len(spm.elems))
        IN /\ SubSeq(spm.elems, 1, Len(input.newrow)) = input.newrow
           /\ new = ExpectedRuns(xs, vs, 1, input.type, input.deltas_set,
                                 input.cfg)
           /\ \A i \in 1..Len(new) :
                 IsPattern(new[i]) =>
                     /\ new[i].delta \in input.deltas_set
                     /\ new[i].size >= input.cfg.min_limit
                     /\ new[i].size <= input.cfg.max_limit
           /\ [i \in 1..Len(DecodeRow(new, input.type)) |->
                  DecodeRow(new, input.type)[i].x] = xs

\* The dense stretch of columns 1..MaxEncodeCol with delta 1 selected and
\* runs of 2 to 3 elements: two patterns of 3 and one of 2; and a stretch
\* whose run is cut into a pattern and a plain element left over.
RunChunkingWitness ==
    /\ pc = "done" /\ "xs" \in DOMAIN input
    /\ Len(input.xs) >= 2 * input.cfg.max_limit + 1
    /\ \E i \in 1..(Len(spm.elems) - 2) :
          /\ IsPattern(spm.elems[i]) /\ spm.elems[i].size = input.cfg.max_limit
          /\ IsPattern(spm.elems[i + 1])
          /\ spm.elems[i + 1].x = spm.elems[i].x
                                     + spm.elems[i].size * spm.elems[i].delta
          /\ ~IsPattern(spm.elems[i + 2])

\* C21 (block anchors are aligned): every block pattern doEncodeBlock
\* emits for alignment k is anchored at a coordinate a of the block order
\* with (a - 1) mod k = 0, its size is a multiple of k, and the row still
\* holds the coordinates of the stretch; this also when plain elements
\* are emitted first because the run starts off a boundary, when the
\* element before the run was popped and taken into the block, and when
\* a long run is cut into several blocks.
BlockAnchorsAligned ==
    pc = "done" /\ "xs" \in DOMAIN input /\ isBlockType(input.type) # 0 =>
        LET k == isBlockType(input.type)
            dec == DecodeRow(spm.elems, input.type)
        IN /\ \A i \in 1..Len(spm.elems) :
                 IsPattern(spm.elems[i]) =>
                     /\ (spm.elems[i].x - 1) % k = 0
                     /\ spm.elems[i].size % k = 0
                     /\ spm.elems[i].pattern = input.type
           /\ [i \in 1..Len(dec) |-> dec[i].x] = input.xs
           /\ [i \in 1..Len(dec) |-> dec[i].vals[1]]
                 = [i \in 1..Len(input.xs) |-> ValueAt(1, input.xs[i])]

\* A run that starts off a boundary behind a lone element: the element
\* before the run is taken back, plain elements lead up to the boundary,
\* and the run is cut into two blocks one behind the other.
BlockAnchorsAlignedWitness ==
    /\ pc = "done" /\ "xs" \in DOMAIN input /\ isBlockType(input.type) # 0
    /\ \E i \in 2..(Len(spm.elems) - 2) :
          /\ ~IsPattern(spm.elems[i]) /\ ~IsPattern(spm.elems[i - 1])
          /\ spm.elems[i].x > spm.elems[i - 1].x + 1
          /\ IsPattern(spm.elems[i + 1]) /\ IsPattern(spm.elems[i + 2])
          /\ spm.elems[i + 1].x = spm.elems[i].x + 1
          /\ spm.elems[i + 2].x = spm.elems[i + 1].x + spm.elems[i + 1].size

\* The blocks of other dimension d in the encoded row, and what the
\* statistics credit to d.
BlocksOfDim(d) ==
    Cardinality({i \in 1..Len(spm.elems) :
                    IsPattern(spm.elems[i]) /\ spm.elems[i].delta = d})

CreditedTo(d) ==
    LET sp == drle.stats[input.type]
    IN IF d \in DOMAIN sp THEN sp[d] ELSE [nnz |-> 0, npatterns |-> 0]

\* C22 (block statistics agree with the block encoder): with every other
\* dimension selected and max_limit beyond the stretch, for every other
\* dimension d the statistics credit as many patterns to d as the encoder
\* emits blocks of d, and a coverage of d * k for each.
BlockStatsAgree ==
    (/\ pc = "done" /\ "xs" \in DOMAIN input /\ isBlockType(input.type) # 0
     /\ input.deltas_set = 2..MaxBlockCol
     /\ input.cfg.max_limit > 2 * MaxBlockCol) =>
        \A d \in 1..MaxBlockCol :
            /\ CreditedTo(d).npatterns = BlocksOfDim(d)
            /\ CreditedTo(d).nnz = BlocksOfDim(d) * d * isBlockType(input.type)

\* A call of Encode returns.
EncodeReturns == pc \in {"genAllStats", "chosen", "Encode"} /\ pc' = "Returned"

\* A call of Encode that encodes returns.
EncodeEncoded == EncodeReturns /\ Len(drle'.chosen) > Len(drle.chosen)

\* C23 as it is stated: whenever Encode has encoded and returned, the
\* partition is in Horizontal order.
EncodeLeavesHorizontal ==
    pc = "Returned" /\ drle.chosen # <<>> => spm.type = HORIZONTAL

\* C23 (Encode restores the order and ignores the type): when Encode
\* returns after encoding a type, the partition is in the iteration order
\* it had when Encode was called, the type is in the ignore set and the
\* next statistics pass gathers nothing for it, so that it is not chosen
\* again; when there is no type to choose, Encode returns with the
\* partition and the manager as they were.
EncodeRestoresOrder ==
    [][EncodeReturns =>
          IF drle'.chosen = drle.chosen
          THEN spm' = spm /\ drle' = drle
          ELSE LET type == LastChosen(drle')
               IN /\ spm'.type = spm.type
                  /\ type = chooseType(drle.stats)
                  /\ type \in drle'.xforms_ignore
                  /\ drle'.xforms_ignore = drle.xforms_ignore \cup {type}
                  /\ type \notin DOMAIN genAllStats(Transform(spm', HORIZONTAL),
                                                    drle', input.cfg).stats]_vars

\* Encode() has returned in doEncode of jit.cc: the partition holds a
\* pattern of the type and is in the order of the type, not yet in
\* Horizontal order.
EncodeRestoresOrderWitness ==
    /\ pc = "Returned" /\ drle.chosen # <<>>
    /\ spm.type = LastChosen(drle) /\ spm.type # HORIZONTAL
    /\ \E i \in 1..Len(spm.elems) : spm.elems[i].pattern = spm.type

\* C24 as it is stated: the deltas selected for the type an iteration of
\* the planner loop encodes are exactly those that passed the filter in
\* the statistics pass of that iteration.
SelectedAreSurvivors ==
    (/\ pc \in {"EncodeAll", "MakeCsx"} /\ drle.chosen # <<>>
     /\ LastChosen(drle) \in DOMAIN drle.stats) =>
        drle.DeltasToEncode[LastChosen(drle)]
            = DOMAIN drle.stats[LastChosen(drle)]

\* The last column unit u covers in the row of its start, counted from 0
\* as u.col is: the last element of a delta list; for a pattern, the
\* column of its last element if it is Horizontal, the column of its
\* anchor if it is Vertical, Diagonal or AntiDiagonal, the greatest
\* column of the block if it is a block.
LastColOfUnit(u) ==
    IF IsDeltaId(u.id) THEN u.col + SumSeq(u.deltas)
    ELSE LET type == u.id \div PID_OFFSET
             delta == u.id % PID_OFFSET
         IN IF type = HORIZONTAL THEN u.col + delta * (u.size - 1)
            ELSE IF type \in {VERTICAL, DIAGONAL, REV_DIAGONAL} THEN u.col
            ELSE SetMax({PatternCoord(type, delta, u.size, u.row, u.col, i)[2] :
                            i \in 0..(u.size - 1)})

\* The last column an element of the partition covers in its row.
LastColOfElem(e) ==
    IF ~IsPattern(e) THEN e.x
    ELSE IF e.pattern = HORIZONTAL THEN e.x + e.delta * (e.size - 1)
    ELSE IF e.pattern \in {VERTICAL, DIAGONAL, REV_DIAGONAL} THEN e.x
    ELSE SetMax({PatternCoord(e.pattern, e.delta, e.size, e.y, e.x, i)[2] :
                    i \in 0..(e.size - 1)})

\* C25 (column jump): with full_column_indices off, the column reference
\* of the first unit of a row is its starting column minus 1 and that of
\* every later unit of the row is its starting column minus the last
\* column covered by the unit before; every unit starts at an element of
\* the partition (a pattern unit at the anchor of its pattern), and in
\* every row of the partition an element starts at or after the last
\* column the element before it covers, the first one at or after column
\* 1, so that the difference is never negative.
ColumnJump ==
    (pc = "done" /\ ~input.cfg.full_column_indices) =>
        LET d == Decoded
            c == mgr.csx
        IN /\ d.ok
           /\ SeqToSet(d.out) = InputTriples
           /\ \A i \in 1..Len(d.units) :
                 LET u == d.units[i]
                 IN /\ ul_get(c.ctl, u.colpos).val = u.ucol
                    /\ u.ucol = IF FirstOfRow(d, i) THEN (u.col + 1) - 1
                                ELSE u.col - LastColOfUnit(d.units[i - 1])
                    /\ u.ucol >= 0
                    /\ \E j \in 1..Len(spm.elems) :
                          /\ spm.elems[j].y = u.row + 1
                          /\ spm.elems[j].x = u.col + 1
                          /\ IsPattern(spm.elems[j]) = ~IsDeltaId(u.id)
                          /\ IsPattern(spm.elems[j]) =>
                                /\ spm.elems[j].size = u.size
                                /\ LastColOfElem(spm.elems[j])
                                      = LastColOfUnit(u) + 1
           /\ \A j \in 1..Len(spm.elems) :
                 /\ spm.elems[j].x - 1 >= 0
                 /\ (j > 1 /\ spm.elems[j - 1].y = spm.elems[j].y) =>
                        spm.elems[j].x - LastColOfElem(spm.elems[j - 1]) >= 0

\* A finished stream, column jumps in use, in which a unit follows, in
\* the same row, a Horizontal pattern of a delta above 1 at a distance.
ColumnJumpWitness ==
    /\ pc = "done" /\ ~input.cfg.full_column_indices
    /\ LET d == Decoded
       IN \E i \in 2..Len(d.units) :
             /\ ~FirstOfRow(d, i)
             /\ ~IsDeltaId(d.units[i - 1].id)
             /\ d.units[i - 1].id \div PID_OFFSET = HORIZONTAL
             /\ d.units[i - 1].id % PID_OFFSET > 1
             /\ d.units[i].ucol > 0

\* The columns, counted from 1, of the elements unit u yields.
ColumnsOfUnit(d, u) == [i \in 1..u.size |-> d.out[u.vi + i][2]]

RECURSIVE Groups(_)
Groups(v) == IF v < 128 THEN 1 ELSE 1 + Groups(v \div 128)

\* What C27 says of the bytes da_put_ul has written for the value.
VarintWritten ==
    LET b == spm.bytes
    IN /\ Len(b) = Groups(input.val)
       /\ \A i \in 1..(Len(b) - 1) : b[i] >= 128 /\ b[i] <= 255
       /\ b[Len(b)] < 128
       /\ (input.val < 128 => b = <<input.val>>)
       /\ \A i \in 1..Len(b) :
             b[i] % 128 = (input.val \div Pow2(7 * (i - 1))) % 128

\* C27 (varint codec) as it is stated: da_put_ul writes the value in
\* base 128, low group first, the high bit set on every byte but the
\* last, in the least number of groups; reading the bytes back, with
\* uc_get_ul or with ul_get, gives the value and ends right behind them.
VarintCodec ==
    (pc \in {"get", "done"} /\ "val" \in DOMAIN input) =>
        /\ VarintWritten
        /\ pc = "done" => /\ drle.got.val = input.val
                          /\ drle.got.pos = Len(spm.bytes)

\* The step of the row of a decoder that reads only the flags: at a unit
\* with NR the row-jump varint behind the size byte if RJMP is set, 1 if
\* not; 0 at a unit without NR.
RowStep(c, u) ==
    IF ~u.nr THEN 0
    ELSE IF u.rjmp THEN ul_get(c.ctl, u.pos0 + 2).val
    ELSE 1

\* The row, from 0, at which that decoder is at unit i.
RowAtUnit(c, d, i) ==
    LET steps == [j \in 1..i |-> RowStep(c, d.units[j])]
    IN SumRange(steps, 1, i)

\* The rows, from 1, of the input elements whose values unit u carries.
RowsOfValues(c, u) ==
    {p[1] : p \in {q \in input.coords :
                      \E k \in 1..u.size :
                         /\ u.vi + k <= Len(c.values)
                         /\ c.values[u.vi + k] = ValueAt(q[1], q[2])}}

\* C28 (decoded row position): a decoder that starts at row 0 and at each
\* unit with NR advances by the row-jump varint if RJMP is set and by 1
\* otherwise is, at every unit of the finished stream, at the row of the
\* partition element the unit was made from: the element is at that row
\* and the unit's column, the first value of the unit is the value the
\* input has there, and no value of the unit comes from a row above it;
\* the units are all the elements' values, wherever the empty rows lie.
DecodedRowPosition ==
    pc = "done" =>
        LET d == Decoded
            c == mgr.csx
        IN /\ d.ok
           /\ d.vi = Cardinality(input.coords)
           /\ \A i \in 1..Len(d.units) :
                 LET u == d.units[i]
                     y == RowAtUnit(c, d, i)
                 IN /\ y = u.row
                    /\ y < input.nr_rows
                    /\ \E j \in 1..Len(spm.elems) :
                          /\ spm.elems[j].y = y + 1
                          /\ spm.elems[j].x = u.col + 1
                    /\ c.values[u.vi + 1] = ValueAt(y + 1, u.col + 1)
                    /\ <<y + 1, u.col + 1>> \in input.coords
                    /\ \A r \in RowsOfValues(c, u) : r >= y + 1

\* A finished stream of a matrix whose first two rows and whose last row
\* are empty: its first unit has NR and RJMP, and the decoder is at row 2
\* when it reads it.
DecodedRowPositionWitness ==
    /\ pc = "done"
    /\ input.nr_rows >= 4
    /\ \A p \in input.coords : p[1] >= 3 /\ p[1] < input.nr_rows
    /\ LET d == Decoded
       IN /\ Len(d.units) >= 1
          /\ d.units[1].nr /\ d.units[1].rjmp
          /\ RowAtUnit(mgr.csx, d, 1) = 2

\* The sweep of a decoder that goes by the RJMP bit of each unit alone.
DecodedByFlags == Decode([mgr.csx EXCEPT !.row_jumps = TRUE])

\* C29 (row_jumps consistency): the row_jumps field of the finished matrix
\* is true iff a unit of its ctl stream has the RJMP bit set, the units
\* being those a decoder going by the RJMP bit finds; so the decoder that
\* reads no row-jump varint when row_jumps is false finds the same units,
\* ends at the end of the stream and gives back the input.
RowJumpsConsistent ==
    pc = "done" =>
        LET c == mgr.csx
            byflags == DecodedByFlags
            d == Decoded
        IN /\ c.row_jumps <=> \E i \in 1..Len(byflags.units) :
                                  byflags.units[i].rjmp
           /\ byflags.ok
           /\ d = byflags
           /\ SeqToSet(d.out) = InputTriples

\* A finished matrix with row_jumps set whose stream has a unit with NR
\* and RJMP and a later unit with NR alone.
RowJumpsConsistentWitness ==
    /\ pc = "done"
    /\ mgr.csx.row_jumps
    /\ LET d == DecodedByFlags
       IN \E i, j \in 1..Len(d.units) :
             /\ i < j
             /\ d.units[i].nr /\ d.units[i].rjmp
             /\ d.units[j].nr /\ ~d.units[j].rjmp

\* The main thread is at the serial product or the comparison of its turn.
MainChecks == pc[0] \in {"serial", "compare", "comparing"}

\* What C30 says of every state of the check loop.
CheckLoopSafe ==
    /\ MainChecks => \A t \in Workers : /\ mgr.done[t] = mgr.i[0] + 1
                                        /\ pc[t] \notin {"spmv", "writing"}
    /\ spm.comparing => spm.writing = {}
    /\ spm.y = "destroyed" =>
          /\ spm.writing = {}
          /\ \A t \in Workers : mgr.done[t] = input.loops /\ pc[t] # "spmv"
    /\ spm.x = "destroyed" => spm.writing = {}
    /\ mgr.i[0] <= input.loops

InBarrier(t) == t \in DOMAIN pc /\ pc[t] \in {"in1", "in2"}

\* The loop has ended: the main thread is past its joins and every worker
\* has returned after `loops` products.
CheckLoopEnded ==
    /\ pc[0] = "done"
    /\ mgr.joined = input.nr_threads
    /\ \A t \in Workers : pc[t] = "returned" /\ mgr.done[t] = input.loops

\* C30 (barrier protocol of the check loop): with the barrier counting
\* nr_threads + 1 threads, in every turn of the loop all workers have
\* finished their product into y before the main thread runs the serial
\* product and compares, no worker writes y during the comparison or once
\* y (or x) is destroyed, every thread that waits in the barrier leaves
\* it, and the loop ends with every worker returned and every join done;
\* unless a comparison finds a difference and the process exits.
BarrierProtocol ==
    /\ []CheckLoopSafe
    /\ \A t \in 0..MaxThreads : InBarrier(t) ~> (~InBarrier(t) \/ Exited)
    /\ <>(CheckLoopEnded \/ Exited)

\* The loop has ended after two turns of three workers, y destroyed, the
\* barrier having opened four times.
BarrierProtocolWitness ==
    /\ CheckLoopEnded
    /\ input.nr_threads = 3
    /\ input.loops = 2
    /\ mgr.i[0] = 2
    /\ drle.gen = 4
    /\ spm.y = "destroyed"

====
